---- MODULE Spec2Model ----
(***************************************************************************)
(* A model of TimestampParser (Date_Time_Parser/Timestamp_Parser_toDays.py) *)
(* Strings are TLA+ strings read one character at a time; the regular       *)
(* expressions and strptime templates of the code are matched character by  *)
(* character, the way the re and _strptime modules match them.              *)
(***************************************************************************)
EXTENDS Integers, Sequences, FiniteSets, TLC

VARIABLES
    verbose,         \* self.verbose
    month_mappings,  \* self.month_mappings, in insertion order
    pc,              \* position of the running call
    timestamp,       \* the argument of the running call
    now,             \* datetime.now() read by the running call
    ts_lower,        \* local ts_lower
    ts_cleaned,      \* local ts_cleaned
    result,          \* the value returned: <<>> for None, <<n>> for the integer n
    stage,           \* the stage whose return statement ended the call
    attempted,       \* the stages the running call has entered, in order
    out,             \* the lines log() printed during the running call
    frame,           \* position of the method that called parse_timestamp_to_days
    timestamps,      \* the argument of parse_multiple_timestamps
    results,         \* local results of parse_multiple_timestamps
    clocks,          \* datetime.now() as read for each element of results
    info,            \* the dictionary get_parsed_info returned: <<>> or <<info>>
    prev,            \* an earlier call as its caller saw it: <<>> or <<call>>
    processor,       \* the keyword processor (MashWords/KeywordProcessor.py)
    call             \* the last call of one of its methods, with what it returned

\* what belongs to the callers of parse_timestamp_to_days
outer == <<frame, timestamps, results, clocks, info, prev>>

vars == <<verbose, month_mappings, pc, timestamp, now, ts_lower, ts_cleaned,
          result, stage, attempted, out, frame, timestamps, results, clocks,
          info, prev, processor, call>>


----------------------------------------------------------------------------
(* Characters and strings *)

Char(s, i) == IF 1 <= i /\ i <= Len(s) THEN SubSeq(s, i, i) ELSE ""

DigitChars == {"0", "1", "2", "3", "4", "5", "6", "7", "8", "9"}

UpperAlpha == "ABCDEFGHIJKLMNOPQRSTUVWXYZ"
LowerAlpha == "abcdefghijklmnopqrstuvwxyz"

LowerChars == {SubSeq(LowerAlpha, i, i) : i \in 1..26}
UpperChars == {SubSeq(UpperAlpha, i, i) : i \in 1..26}

\* the character '·' (U+00B7) of the pattern of line 119. The strings of the
\* model are ASCII; '*', which stands in no pattern, format or argument of
\* the code, is written for it. It is, like '·', neither \d nor \s nor \w,
\* and str.lower() and str.strip() leave it alone.
MiddleDot == "*"

\* \d, \s and \w of the re module, on the characters of the model
IsDigit(c) == c \in DigitChars
IsSpace(c) == c = " "
IsWord(c) == c \in DigitChars \cup LowerChars \cup UpperChars \cup {"_"}

\* str.lower() on one character
LowerChar(c) ==
    IF c \in UpperChars
    THEN LET i == CHOOSE k \in 1..26 : SubSeq(UpperAlpha, k, k) = c
         IN SubSeq(LowerAlpha, i, i)
    ELSE c

\* str.lower(), character by character (the string is halved at each level
\* to keep the recursion shallow on long strings)
RECURSIVE Lower(_)
Lower(s) ==
    IF Len(s) <= 1 THEN LowerChar(s)
    ELSE LET h == Len(s) \div 2
         IN Lower(SubSeq(s, 1, h)) \o Lower(SubSeq(s, h + 1, Len(s)))

\* str.strip()
RECURSIVE LStrip(_)
LStrip(s) == IF s # "" /\ IsSpace(Head(s)) THEN LStrip(Tail(s)) ELSE s

RECURSIVE RStrip(_)
RStrip(s) ==
    IF s # "" /\ IsSpace(Char(s, Len(s)))
    THEN RStrip(SubSeq(s, 1, Len(s) - 1))
    ELSE s

Strip(s) == RStrip(LStrip(s))

\* s[i:] starts with t
StartsAt(s, i, t) ==
    /\ i >= 1
    /\ i + Len(t) - 1 <= Len(s)
    /\ SubSeq(s, i, i + Len(t) - 1) = t

\* t in s
Contains(s, t) == \E i \in 1..(Len(s) + 1) : StartsAt(s, i, t)

\* \b between s[k] and s[k+1]
Boundary(s, k) == IsWord(Char(s, k)) # IsWord(Char(s, k + 1))

Min(S) == CHOOSE x \in S : \A y \in S : x <= y

\* the last index of the run of digits that starts at i (i - 1 when s[i] is
\* no digit): the index before the first character from i on that is no digit
DigitRunEnd(s, i) ==
    Min({j \in i..(Len(s) + 1) : ~IsDigit(Char(s, j))}) - 1

\* the last index of the run of whitespace that starts at i (i - 1 when s[i]
\* is no whitespace)
RECURSIVE SpaceRunEnd(_, _)
SpaceRunEnd(s, i) ==
    IF i <= Len(s) /\ IsSpace(Char(s, i)) THEN SpaceRunEnd(s, i + 1) ELSE i - 1

\* the first index of the run of whitespace that ends at i (i + 1 when s[i]
\* is no whitespace)
RECURSIVE SpaceRunStart(_, _)
SpaceRunStart(s, i) ==
    IF i >= 1 /\ IsSpace(Char(s, i)) THEN SpaceRunStart(s, i - 1) ELSE i + 1

DigitValue(c) == CHOOSE v \in 0..9 : SubSeq("0123456789", v + 1, v + 1) = c

\* int() of a string of decimal digits
RECURSIVE ToInt(_)
ToInt(s) ==
    IF s = "" THEN 0
    ELSE 10 * ToInt(SubSeq(s, 1, Len(s) - 1)) + DigitValue(Char(s, Len(s)))

\* a raised exception, as the value of the expression that raises it
Raise(exc) == [ok |-> FALSE, exc |-> exc]

\* sys.int_info.default_max_str_digits: the longest string of digits int()
\* converts (CPython 3.11 and later, and the security releases of 3.7 to 3.10)
int_max_str_digits == 4300

\* int(x) for a string of decimal digits: the value, or ValueError ("Exceeds
\* the limit (4300 digits) for integer string conversion")
IntOf(x) ==
    IF Len(x) > int_max_str_digits THEN Raise("ValueError")
    ELSE [ok |-> TRUE, val |-> ToInt(x)]

----------------------------------------------------------------------------
(* datetime *)

IsLeap(y) == (y % 4 = 0) /\ ((y % 100 # 0) \/ (y % 400 = 0))

DaysInMonth(y, m) ==
    IF m = 2 THEN (IF IsLeap(y) THEN 29 ELSE 28)
    ELSE IF m \in {4, 6, 9, 11} THEN 30 ELSE 31

\* datetime(y, m, d) raises ValueError unless this holds
ValidDate(y, m, d) ==
    /\ 1 <= y /\ y <= 9999
    /\ 1 <= m /\ m <= 12
    /\ 1 <= d /\ d <= DaysInMonth(y, m)

RECURSIVE DaysBeforeMonth(_, _)
DaysBeforeMonth(y, m) ==
    IF m = 1 THEN 0 ELSE DaysBeforeMonth(y, m - 1) + DaysInMonth(y, m - 1)

\* date.toordinal()
Ordinal(y, m, d) ==
    LET p == y - 1
    IN 365 * p + (p \div 4) - (p \div 100) + (p \div 400)
       + DaysBeforeMonth(y, m) + d

\* DaysBetween with the difference rounded to the nearest day
DaysBetween_Rounded(n, dt) ==
    ((Ordinal(n.year, n.month, n.day) - Ordinal(dt.year, dt.month, dt.day))
        * 86400 + n.secs + 43200) \div 86400

\* DaysBetween with a day that has begun counted as a whole day
DaysBetween_BegunDays(n, dt) ==
    ((Ordinal(n.year, n.month, n.day) - Ordinal(dt.year, dt.month, dt.day))
        * 86400 + n.secs + 86399) \div 86400

\* (n - dt).days, dt at midnight: timedelta normalises to 0 <= seconds < 86400,
\* so days is the floor of the difference
DaysBetween(n, dt) ==
    ((Ordinal(n.year, n.month, n.day) - Ordinal(dt.year, dt.month, dt.day))
        * 86400 + n.secs) \div 86400

\* DateAfter with >= for >
DateAfter_OrEqual(a, b) ==
    Ordinal(a.year, a.month, a.day) >= Ordinal(b.year, b.month, b.day)

\* a.date() > b.date()
DateAfter(a, b) ==
    Ordinal(a.year, a.month, a.day) > Ordinal(b.year, b.month, b.day)

----------------------------------------------------------------------------
(* The patterns of the relative stages *)

\* ImmediatePhrases without " now"
ImmediatePhrases_NoBareNow == <<"just now", "a moment ago", "moments ago">>

\* the phrases of line 79
ImmediatePhrases == <<"just now", " now", "a moment ago", "moments ago">>

MatchesImmediate(s) ==
    \E k \in 1..Len(ImmediatePhrases) : Contains(s, ImmediatePhrases[k])

\* (\d+)\s*(?:t1|t2|...)\b with \d+ ending at index e: the whitespace, one of
\* the tokens, and a word boundary after it
UnitAfter_NoBoundary(s, e, tokens) ==
    LET k == SpaceRunEnd(s, e + 1) + 1
    IN \E t \in tokens : StartsAt(s, k, t)

UnitAfter(s, e, tokens) ==
    LET k == SpaceRunEnd(s, e + 1) + 1
    IN \E t \in tokens : StartsAt(s, k, t) /\ Boundary(s, k + Len(t) - 1)

\* i is the head of a run of digits of s
RunHead(s, i) == IsDigit(Char(s, i)) /\ ~IsDigit(Char(s, i - 1))

\* the heads of the runs of digits at which (\d+)\s*(?:t1|t2|...)\b matches.
\* \d+ has to end where the run ends, so the pattern matches at every index of
\* such a run, and the leftmost match starts at the head of the first one.
CountUnitStarts(s, tokens) ==
    {i \in 1..Len(s) :
        RunHead(s, i) /\ UnitAfter(s, DigitRunEnd(s, i), tokens)}

\* re.search(pattern, s) is not None
SearchCountUnit(s, tokens) == CountUnitStarts(s, tokens) # {}

\* re.search(pattern, s).group(1): the leftmost match, \d+ greedy
CountUnitGroup1(s, tokens) ==
    LET i == Min(CountUnitStarts(s, tokens))
    IN SubSeq(s, i, DigitRunEnd(s, i))

\* time_units without the one-letter spellings
time_units_NoShortForms == <<
    [tokens |-> {"sec", "secs", "second", "seconds"}, days |-> 0],
    [tokens |-> {"min", "mins", "minute", "minutes"}, days |-> 0],
    [tokens |-> {"hr", "hrs", "hour", "hours"}, days |-> 0] >>

\* the unit alternatives of the three patterns of time_units, and their days
time_units == <<
    [tokens |-> {"s", "sec", "secs", "second", "seconds"}, days |-> 0],
    [tokens |-> {"m", "min", "mins", "minute", "minutes"}, days |-> 0],
    [tokens |-> {"h", "hr", "hrs", "hour", "hours"}, days |-> 0] >>

MatchesTimeUnit(s) ==
    \E k \in 1..Len(time_units) : SearchCountUnit(s, time_units[k].tokens)

\* the days of the first pattern of time_units that matches
TimeUnitDays(s) ==
    LET k == Min({j \in 1..Len(time_units) :
                     SearchCountUnit(s, time_units[j].tokens)})
    IN time_units[k].days

\* MatchesYesterday with == for in
MatchesYesterday_Exact(s) == s = "yesterday"

\* "yesterday" in ts_lower
MatchesYesterday(s) == Contains(s, "yesterday")

\* relative_patterns with the short forms only: (\d+)\s*d\b and
\* (\d+)\s*(?:w|wk)\b
relative_patterns_ShortOnly == <<
    [tokens |-> {"d"}, factor |-> 1],
    [tokens |-> {"w", "wk"}, factor |-> 7] >>

\* the unit alternatives of the two patterns of relative_patterns, and the
\* factor of their converters; the trailing (?:\s*ago)? is optional and changes
\* neither the match nor group(1)
relative_patterns == <<
    [tokens |-> {"d", "day", "days"}, factor |-> 1],
    [tokens |-> {"w", "wk", "week", "weeks"}, factor |-> 7] >>

MatchesRelative(s) ==
    \E k \in 1..Len(relative_patterns) :
        SearchCountUnit(s, relative_patterns[k].tokens)

\* lambda x: int(x) * factor, x the outcome of int(): the value, or the
\* exception int() raises
Converter(x, factor) ==
    IF x.ok THEN [ok |-> TRUE, days |-> x.val * factor] ELSE x

\* converter(match.group(1)) of the first pattern of relative_patterns that
\* matches
RelativeDays(s) ==
    LET k == Min({j \in 1..Len(relative_patterns) :
                     SearchCountUnit(s, relative_patterns[j].tokens)})
    IN Converter(IntOf(CountUnitGroup1(s, relative_patterns[k].tokens)),
                 relative_patterns[k].factor)

\* (\d+)\s+units?\s+ago with \d+ ending at index e
AgoAfter(s, e, unit) ==
    LET k == SpaceRunEnd(s, e + 1) + 1
    IN /\ k > e + 1
       /\ \E t \in {unit, unit \o "s"} :
            /\ StartsAt(s, k, t)
            /\ IsSpace(Char(s, k + Len(t)))
            /\ StartsAt(s, SpaceRunEnd(s, k + Len(t)) + 1, "ago")

\* the heads of the runs of digits at which the pattern matches
AgoStarts(s, unit) ==
    {i \in 1..Len(s) : RunHead(s, i) /\ AgoAfter(s, DigitRunEnd(s, i), unit)}

SearchAgo(s, unit) == AgoStarts(s, unit) # {}

AgoGroup1(s, unit) ==
    LET i == Min(AgoStarts(s, unit)) IN SubSeq(s, i, DigitRunEnd(s, i))

\* the units of the four patterns of special_patterns and the factor of their
\* converters
special_patterns == <<
    [unit |-> "day", factor |-> 1],
    [unit |-> "week", factor |-> 7],
    [unit |-> "month", factor |-> 30],
    [unit |-> "year", factor |-> 365] >>

MatchesSpecial(s) ==
    \E k \in 1..Len(special_patterns) : SearchAgo(s, special_patterns[k].unit)

\* the index of the first pattern of special_patterns that matches
SpecialIndex(s) ==
    Min({j \in 1..Len(special_patterns) : SearchAgo(s, special_patterns[j].unit)})

\* converter(match.group(1)) of that pattern
SpecialDays(s) ==
    LET k == SpecialIndex(s)
    IN Converter(IntOf(AgoGroup1(s, special_patterns[k].unit)),
                 special_patterns[k].factor)

----------------------------------------------------------------------------
(* Cleaning for the date stages (lines 114 to 126) *)

\* the last index of the match of
\* \s+at\s+\d{1,2}:\d{2}(?::\d{2})?(?:\s*[ap]m)? that starts at i; 0 when it
\* does not match there
TimeOfDayEnd(s, i) ==
    LET e1 == SpaceRunEnd(s, i)
        e2 == SpaceRunEnd(s, e1 + 3)
        c  == IF Char(s, e2 + 2) = ":" THEN e2 + 2 ELSE e2 + 3
        e3 == c + 2
        e4 == IF /\ Char(s, e3 + 1) = ":"
                 /\ IsDigit(Char(s, e3 + 2))
                 /\ IsDigit(Char(s, e3 + 3))
              THEN e3 + 3 ELSE e3
        r  == SpaceRunEnd(s, e4 + 1)
        e5 == IF Char(s, r + 1) \in {"a", "p"} /\ Char(s, r + 2) = "m"
              THEN r + 2 ELSE e4
    IN IF /\ e1 >= i
          /\ StartsAt(s, e1 + 1, "at")
          /\ e2 >= e1 + 3
          /\ IsDigit(Char(s, e2 + 1))
          /\ \/ Char(s, e2 + 2) = ":"
             \/ IsDigit(Char(s, e2 + 2)) /\ Char(s, e2 + 3) = ":"
          /\ IsDigit(Char(s, c + 1))
          /\ IsDigit(Char(s, c + 2))
       THEN e5 ELSE 0

\* re.sub(r"\s+at\s+\d{1,2}:\d{2}(?::\d{2})?(?:\s*[ap]m)?", "", s)
RECURSIVE SubTimeOfDay(_)
SubTimeOfDay(s) ==
    LET starts == {i \in 1..Len(s) : TimeOfDayEnd(s, i) > 0}
    IN IF starts = {} THEN s
       ELSE LET i == Min(starts)
                e == TimeOfDayEnd(s, i)
            IN SubSeq(s, 1, i - 1) \o SubTimeOfDay(SubSeq(s, e + 1, Len(s)))

\* SubAnnotation with [\|] for [\|·]
SubAnnotation_BarOnly(s) ==
    LET seps == {i \in 1..Len(s) : Char(s, i) = "|"}
    IN IF seps = {} THEN s
       ELSE SubSeq(s, 1, SpaceRunStart(s, Min(seps) - 1) - 1)

\* re.sub(r"\s*[\|·].*$", "", s)
SubAnnotation(s) ==
    LET seps == {i \in 1..Len(s) : Char(s, i) \in {"|", MiddleDot}}
    IN IF seps = {} THEN s
       ELSE SubSeq(s, 1, SpaceRunStart(s, Min(seps) - 1) - 1)

\* re.sub(r"\s+ago\s*$", "", s)
SubAgo(s) ==
    LET t == RStrip(s)
        n == Len(t)
    IN IF n >= 4 /\ SubSeq(t, n - 2, n) = "ago" /\ IsSpace(Char(t, n - 3))
       THEN SubSeq(s, 1, SpaceRunStart(t, n - 3) - 1)
       ELSE s

\* WordStarts for the pattern without \b
WordStarts_Anywhere(s, abbrev) == {i \in 1..Len(s) : StartsAt(s, i, abbrev)}

\* the indexes at which \b{abbrev}\b matches
WordStarts(s, abbrev) ==
    {i \in 1..Len(s) :
        /\ StartsAt(s, i, abbrev)
        /\ Boundary(s, i - 1)
        /\ Boundary(s, i + Len(abbrev) - 1)}

\* re.sub(rf'\b{abbrev}\b', full_name, s), from index i on: the text up to
\* the next match, the replacement, and the rest after the match
RECURSIVE SubWord(_, _, _, _)
SubWord(s, i, abbrev, full_name) ==
    LET rest == {j \in WordStarts(s, abbrev) : j >= i}
    IN IF rest = {} THEN SubSeq(s, i, Len(s))
       ELSE SubSeq(s, i, Min(rest) - 1) \o full_name
            \o SubWord(s, Min(rest) + Len(abbrev), abbrev, full_name)

\* the loop of lines 125 and 126, from the k-th item of the table on
RECURSIVE NormalizeMonths(_, _, _)
NormalizeMonths(s, mm, k) ==
    IF k > Len(mm) THEN s
    ELSE NormalizeMonths(SubWord(s, 1, mm[k][1], mm[k][2]), mm, k + 1)

\* ts_cleaned of lines 116 to 126
Clean(s, mm) ==
    NormalizeMonths(
        Strip(SubAgo(Strip(SubAnnotation(Strip(SubTimeOfDay(s)))))), mm, 1)

----------------------------------------------------------------------------
(* datetime.strptime *)

MonthNames == <<"january", "february", "march", "april", "may", "june", "july",
                "august", "september", "october", "november", "december">>

MonthAbbrs == <<"jan", "feb", "mar", "apr", "may", "jun", "jul", "aug", "sep",
                "oct", "nov", "dec">>

Only(cond, v) == IF cond THEN {v} ELSE {}

\* the ways the regular expression of directive %dir matches at s[i:], each
\* with its length and its value:
\*   %d  3[0-1]|[1-2]\d|0[1-9]|[1-9]| [1-9]      %m  1[0-2]|0[1-9]|[1-9]
\*   %Y  \d\d\d\d     %B  the month names     %b  the abbreviated month names
DirectiveMatches(dir, s, i) ==
    LET a == Char(s, i)
        b == Char(s, i + 1)
        nz == DigitChars \ {"0"}
    IN CASE dir = "d" ->
              Only(\/ a = "3" /\ b \in {"0", "1"}
                   \/ a \in {"1", "2"} /\ IsDigit(b)
                   \/ a = "0" /\ b \in nz
                   \/ a = " " /\ b \in nz,
                   [len |-> 2, val |-> ToInt(LStrip(a \o b))])
              \cup Only(a \in nz, [len |-> 1, val |-> ToInt(a)])
         [] dir = "m" ->
              Only(\/ a = "1" /\ b \in {"0", "1", "2"}
                   \/ a = "0" /\ b \in nz,
                   [len |-> 2, val |-> ToInt(a \o b)])
              \cup Only(a \in nz, [len |-> 1, val |-> ToInt(a)])
         [] dir = "Y" ->
              Only(\A k \in 0..3 : IsDigit(Char(s, i + k)),
                   [len |-> 4, val |-> ToInt(SubSeq(s, i, i + 3))])
         [] dir = "B" ->
              {[len |-> Len(MonthNames[k]), val |-> k] :
                  k \in {k \in 1..12 : StartsAt(s, i, MonthNames[k])}}
         [] dir = "b" ->
              {[len |-> Len(MonthAbbrs[k]), val |-> k] :
                  k \in {k \in 1..12 : StartsAt(s, i, MonthAbbrs[k])}}
         [] OTHER -> {}

\* the field of the result a directive sets
Field(dir) == IF dir \in {"B", "b"} THEN "m" ELSE dir

\* the values with which format f[j:] matches the whole of s[i:]. Whitespace
\* in the format stands for \s+, any other character for itself.
RECURSIVE ParseFormat(_, _, _, _, _)
ParseFormat(s, i, f, j, acc) ==
    IF j > Len(f) THEN Only(i = Len(s) + 1, acc)
    ELSE IF Char(f, j) = "%" THEN
        UNION {ParseFormat(s, i + t.len, f, j + 2,
                           [acc EXCEPT ![Field(Char(f, j + 1))] = t.val]) :
                  t \in DirectiveMatches(Char(f, j + 1), s, i)}
    ELSE IF IsSpace(Char(f, j)) THEN
        UNION {ParseFormat(s, k, f, SpaceRunEnd(f, j) + 1, acc) :
                  k \in (i + 1)..(SpaceRunEnd(s, i) + 1)}
    ELSE IF Char(s, i) = Char(f, j) THEN ParseFormat(s, i + 1, f, j + 1, acc)
    ELSE {}

\* the datetime of the values r of the directives, or ValueError when they are
\* no calendar date
DatetimeOf(r) ==
    IF ValidDate(r.Y, r.m, r.d)
    THEN [ok |-> TRUE, year |-> r.Y, month |-> r.m, day |-> r.d]
    ELSE Raise("ValueError")

\* datetime.strptime(s, f): the date, or ValueError when the format does not
\* match the whole string or the values are no calendar date
Strptime(s, f) ==
    LET parses == ParseFormat(s, 1, f, 1, [Y |-> 1900, m |-> 1, d |-> 1])
    IN IF parses = {} THEN Raise("ValueError")
       ELSE DatetimeOf(CHOOSE r \in parses : TRUE)

\* str() of a natural number
RECURSIVE ToStr(_)
ToStr(n) ==
    IF n < 10 THEN SubSeq("0123456789", n + 1, n + 1)
    ELSE ToStr(n \div 10) \o SubSeq("0123456789", (n % 10) + 1, (n % 10) + 1)

----------------------------------------------------------------------------
(* The date stages *)

\* date_formats_with_year with lines 137 and 138 the other way round
date_formats_with_year_DayFirst == <<
    "%d %B %Y", "%B %d, %Y", "%b %d, %Y", "%d %b %Y", "%Y-%m-%d", "%d/%m/%Y",
    "%m/%d/%Y", "%Y/%m/%d", "%B %d %Y", "%d-%B-%Y", "%d-%b-%Y", "%B %d, %Y" >>

\* lines 131 to 144
date_formats_with_year == <<
    "%d %B %Y", "%B %d, %Y", "%b %d, %Y", "%d %b %Y", "%Y-%m-%d", "%m/%d/%Y",
    "%d/%m/%Y", "%Y/%m/%d", "%B %d %Y", "%d-%B-%Y", "%d-%b-%Y", "%B %d, %Y" >>

date_formats_no_year == <<
    "%d %B", "%B %d", "%d %b", "%b %d", "%m/%d", "%d/%m", "%d-%B", "%d-%b" >>

\* Clamp with the clamp forgotten: return days_diff
Clamp_Forgotten(days_diff) == days_diff

\* max(0, days_diff)
Clamp(days_diff) == IF days_diff > 0 THEN days_diff ELSE 0

\* except ValueError (lines 153, 184 and 230): the exceptions the handler
\* swallows
Caught(exc) == exc = "ValueError"

\* an attempt ends the loop over the formats when it returns a value or raises
\* an exception the handler does not catch
EndsLoop(attempt) == attempt.ok \/ ~Caught(attempt.exc)

\* no format applied: the loop is over and the cascade goes on
FallThrough == [ok |-> FALSE, exc |-> ""]

\* lines 150 to 152 (and 227 to 229): return max(0, (now - parsed_dt).days);
\* an exception raised before them goes on
DaysAgo(n, parsed_dt) ==
    IF parsed_dt.ok
    THEN [ok |-> TRUE, days |-> Clamp(DaysBetween(n, parsed_dt))]
    ELSE parsed_dt

\* the body of the try of lines 149 to 152 for one format: the value returned,
\* or the exception raised
WithYearAttempt(s, n, fmt_str) == DaysAgo(n, Strptime(s, fmt_str))

\* the loop of lines 147 to 154: the first attempt that ends the loop
WithYear(s, n) ==
    LET ends == {k \in 1..Len(date_formats_with_year) :
                    EndsLoop(WithYearAttempt(s, n, date_formats_with_year[k]))}
    IN IF ends = {} THEN FallThrough
       ELSE WithYearAttempt(s, n, date_formats_with_year[Min(ends)])

\* InferYear without the comparison of line 175: always the year of n
InferYear_SameYear(cur, n) ==
    IF ~cur.ok THEN cur
    ELSE [ok |-> TRUE, year |-> cur.year, month |-> cur.month, day |-> cur.day,
          last_year |-> FALSE]

\* InferYear with datetime() raising an exception that is no ValueError for a
\* day the year before does not have
InferYear_OtherError(cur, n) ==
    IF ~cur.ok THEN cur
    ELSE IF DateAfter(cur, n)
    THEN IF ValidDate(n.year - 1, cur.month, cur.day)
         THEN [ok |-> TRUE, year |-> n.year - 1, month |-> cur.month,
               day |-> cur.day, last_year |-> TRUE]
         ELSE Raise("OverflowError")
    ELSE [ok |-> TRUE, year |-> cur.year, month |-> cur.month, day |-> cur.day,
          last_year |-> FALSE]

\* lines 175 to 179 and 222 to 225: the date cur (of strptime, in the year of
\* n) or, when it is after n, the same day in the year before; datetime()
\* raises ValueError when that is no calendar date, and an exception of
\* strptime goes on
InferYear(cur, n) ==
    IF ~cur.ok THEN cur
    ELSE IF DateAfter(cur, n)
    THEN IF ValidDate(n.year - 1, cur.month, cur.day)
         THEN [ok |-> TRUE, year |-> n.year - 1, month |-> cur.month,
               day |-> cur.day, last_year |-> TRUE]
         ELSE Raise("ValueError")
    ELSE [ok |-> TRUE, year |-> cur.year, month |-> cur.month, day |-> cur.day,
          last_year |-> FALSE]

\* lines 181 to 183: the value returned, with the log line of line 177
DaysAgoLogged(n, parsed_dt) ==
    IF parsed_dt.ok
    THEN [ok |-> TRUE, days |-> Clamp(DaysBetween(n, parsed_dt)),
          last_year |-> parsed_dt.last_year]
    ELSE parsed_dt

\* the body of the try of lines 172 to 183 for one format
NoYearAttempt(s, n, fmt_str) ==
    DaysAgoLogged(
        n, InferYear(Strptime(s \o " " \o ToStr(n.year), fmt_str \o " %Y"), n))

\* the loop of lines 169 to 185: the first attempt that ends the loop
NoYear(s, n) ==
    LET ends == {k \in 1..Len(date_formats_no_year) :
                    EndsLoop(NoYearAttempt(s, n, date_formats_no_year[k]))}
    IN IF ends = {} THEN FallThrough
       ELSE NoYearAttempt(s, n, date_formats_no_year[Min(ends)])

\* the last index of the run of [a-z] that starts at i
RECURSIVE LowerRunEnd(_, _)
LowerRunEnd(s, i) ==
    IF i <= Len(s) /\ Char(s, i) \in LowerChars
    THEN LowerRunEnd(s, i + 1) ELSE i - 1

\* the length of group 1 when (\d{1,2})\s+([a-z]+)(?:\s+(\d{4}))? matches at i,
\* 0 when it does not match there
FallbackDayLen(s, i) ==
    LET L == IF IsDigit(Char(s, i + 1)) THEN 2 ELSE 1
        w == SpaceRunEnd(s, i + L) + 1
    IN IF /\ IsDigit(Char(s, i))
          /\ IsSpace(Char(s, i + L))
          /\ Char(s, w) \in LowerChars
       THEN L ELSE 0

\* FallbackSearch with the pattern (\d{1,2})\s+([a-z]+)$: nothing may follow
\* the word
FallbackSearch_ToTheEnd(s) ==
    LET starts == {i \in 1..Len(s) :
                      /\ FallbackDayLen(s, i) > 0
                      /\ LowerRunEnd(
                             s, SpaceRunEnd(s, i + FallbackDayLen(s, i)) + 1)
                           = Len(s)}
    IN IF starts = {} THEN [found |-> FALSE]
       ELSE LET i == Min(starts)
                L == FallbackDayLen(s, i)
                w == SpaceRunEnd(s, i + L) + 1
            IN [found |-> TRUE,
                day_str |-> SubSeq(s, i, i + L - 1),
                month_str |-> SubSeq(s, w, Len(s)),
                year_str |-> ""]

\* re.search(r'(\d{1,2})\s+([a-z]+)(?:\s+(\d{4}))?', s): the groups of the
\* leftmost match, year_str "" for a group that did not take part
FallbackSearch(s) ==
    LET starts == {i \in 1..Len(s) : FallbackDayLen(s, i) > 0}
    IN IF starts = {} THEN [found |-> FALSE]
       ELSE LET i == Min(starts)
                L == FallbackDayLen(s, i)
                w == SpaceRunEnd(s, i + L) + 1
                e == LowerRunEnd(s, w)
                y == SpaceRunEnd(s, e + 1) + 1
            IN [found |-> TRUE,
                day_str |-> SubSeq(s, i, i + L - 1),
                month_str |-> SubSeq(s, w, e),
                year_str |-> IF /\ y > e + 1
                                /\ \A k \in 0..3 : IsDigit(Char(s, y + k))
                             THEN SubSeq(s, y, y + 3) ELSE ""]

\* self.month_mappings[month_str] if month_str in self.month_mappings
MapMonth(month_str, mm) ==
    LET ks == {k \in 1..Len(mm) : mm[k][1] = month_str}
    IN IF ks = {} THEN month_str ELSE mm[Min(ks)][2]

\* FallbackDate without the comparison of line 221
FallbackDate_CurrentYear(g, n, mm) ==
    Strptime(g.day_str \o " " \o MapMonth(g.month_str, mm) \o " "
                 \o (IF g.year_str # "" THEN g.year_str ELSE ToStr(n.year)),
             "%d %B %Y")

\* lines 216 to 225: parsed_dt, from the groups g of the match
FallbackDate(g, n, mm) ==
    IF g.year_str # ""
    THEN Strptime(g.day_str \o " " \o MapMonth(g.month_str, mm) \o " "
                      \o g.year_str, "%d %B %Y")
    ELSE InferYear(
             Strptime(g.day_str \o " " \o MapMonth(g.month_str, mm) \o " "
                          \o ToStr(n.year), "%d %B %Y"), n)

\* the try of lines 215 to 231: the value returned, the fall through of the
\* handler, or the exception the handler does not catch
FallbackTry(attempt) ==
    IF attempt.ok \/ ~Caught(attempt.exc) THEN attempt ELSE FallThrough

\* lines 206 to 231, for the outcome g of the search
FallbackMatch(g, n, mm) ==
    IF ~g.found THEN FallThrough
    ELSE FallbackTry(DaysAgo(n, FallbackDate(g, n, mm)))

\* lines 205 to 231: the value returned, the exception that escapes the try,
\* or the fall through to line 233
Fallback(s, n, mm) == FallbackMatch(FallbackSearch(s), n, mm)

----------------------------------------------------------------------------
(* The arguments and the clock values of the calls *)

\* the largest count written in the generated relative timestamps
MaxCount == 2

\* strftime, for the directives of the date formats (%d and %m zero padded)
Pad2(n) == IF n < 10 THEN "0" \o ToStr(n) ELSE ToStr(n)

RECURSIVE Render(_, _, _, _, _)
Render(f, j, d, m, y) ==
    IF j > Len(f) THEN ""
    ELSE IF Char(f, j) = "%" THEN
        LET dir == Char(f, j + 1)
        IN (CASE dir = "d" -> Pad2(d)
              [] dir = "m" -> Pad2(m)
              [] dir = "Y" -> ToStr(y)
              [] dir = "B" -> MonthNames[m]
              [] dir = "b" -> MonthAbbrs[m])
           \o Render(f, j + 2, d, m, y)
    ELSE Char(f, j) \o Render(f, j + 1, d, m, y)

\* <<day, month, year>> written in the generated absolute dates
SampleDates ==
    {<<27, 3, 2017>>, <<15, 6, 2024>>, <<16, 6, 2024>>, <<3, 4, 2025>>,
     <<29, 2, 2023>>, <<31, 12, 2023>>}

\* <<day, month>> written in the generated yearless dates
SampleDays ==
    {<<13, 2>>, <<1, 2>>, <<29, 2>>, <<2, 3>>, <<15, 6>>, <<4, 11>>}

WithYearInputs ==
    {Render(date_formats_with_year[k], 1, dt[1], dt[2], dt[3]) :
        k \in 1..Len(date_formats_with_year), dt \in SampleDates}

NoYearInputs ==
    {Render(date_formats_no_year[k], 1, dm[1], dm[2], 0) :
        k \in 1..Len(date_formats_no_year), dm \in SampleDays}

Counts == {ToStr(k) : k \in 0..MaxCount} \cup {"03", "500"}

Units ==
    {"s", "sec", "secs", "second", "seconds", "m", "min", "mins", "minute",
     "minutes", "h", "hr", "hrs", "hour", "hours", "d", "day", "days", "w",
     "wk", "week", "weeks", "month", "months", "year", "years", "dec", "mar",
     "sept", "hoursx", "x"}

CountedInputs ==
    {c \o sp \o u \o suffix :
        c \in Counts, sp \in {"", " "}, u \in Units, suffix \in {"", " ago"}}

\* fragments joined two by two
Fragments ==
    {"just now", "yesterday", "3d", "2w", "5 hours ago", "27 march 2017",
     "13 feb", "3 months ago", "2 years ago", "at 3:45 pm", "| feb", "by x"}

PairInputs == {a \o " " \o b : a, b \in Fragments}

FixedInputs ==
    {"", "   ", " now", "now", "  now  ", "completely invalid gibberish",
     "invalid timestamp", "just now", "Just Now", "JUST NOW", "a moment ago",
     "Moments ago", "posted moments ago", "right now", "snow", "Yesterday",
     "yesterday at 3:45 PM", "Yesterday at 15:30", "yesterday", "3D", "2W",
     "27 March 2017", "March 27, 2017", "April 15, 2023", "14 mar 2020",
     "13 Feb", "13 Feb 10:37", "feb 13", "29 april", "3/4/2025", "13/2/2024",
     "3/4", "13/2", "2/13", "31/12", "0/0/2024", "31 april 2024", "31 april",
     "27 march 2017 at 10:37", "16 february | feb", "16 february * feb",
     "13 feb at 10:37:15 pm", "13 feb ago", "27 march 20175", "5 posts 13 feb",
     "on 13 feb 2023 by x", "on 2 mar", "45 feb", "00 feb", "13 smarch",
     "2017 march", "3 months 2 years ago", "2 years ago 3 months ago",
     "2 years ago, 3 months ago", "1 year ago", "12 months ago"}

\* c, n times
RECURSIVE Repeat(_, _)
Repeat(c, n) ==
    IF n = 0 THEN ""
    ELSE IF n = 1 THEN c
    ELSE Repeat(c, n \div 2) \o Repeat(c, n - (n \div 2))

\* a count of one digit more than int() converts
LongCount == Repeat("9", int_max_str_digits + 1)

\* timestamps with the long count
LongInputs ==
    {LongCount \o "d", LongCount \o " weeks ago", LongCount \o " hours",
     LongCount \o " months ago", "yesterday " \o LongCount \o "d"}

\* what scraped timestamps carry behind the date: a time of day, 'ago', an
\* annotation
Suffixes ==
    {" at 10:37", " at 3:45 PM", " at 17:50:09", " at 9:05:30am", " ago",
     " | Feb", "|posted", " * edited"}

\* the dates written before them: one date in each format, and dates as the
\* pages write them
DecoratedDates ==
    {Render(date_formats_with_year[k], 1, 27, 3, 2017) :
        k \in 1..Len(date_formats_with_year)}
    \cup {Render(date_formats_no_year[k], 1, 13, 2, 0) :
        k \in 1..Len(date_formats_no_year)}
    \cup {"13 Feb", "March 27, 2017", "3/4"}

DecoratedInputs == {d \o sfx : d \in DecoratedDates, sfx \in Suffixes}

\* the keys of self.month_mappings as the pages write them: in lower case, with
\* a capital, in capitals
AliasSpellings == <<
    <<"jan", "feb", "mar", "apr", "may", "jun", "jul", "aug", "sep", "sept",
      "oct", "nov", "dec">>,
    <<"Jan", "Feb", "Mar", "Apr", "May", "Jun", "Jul", "Aug", "Sep", "Sept",
      "Oct", "Nov", "Dec">>,
    <<"JAN", "FEB", "MAR", "APR", "MAY", "JUN", "JUL", "AUG", "SEP", "SEPT",
      "OCT", "NOV", "DEC">> >>

\* what stands before and after the month in the formats with %B, for the 5th
\* of the month, and 2023
NameTemplates ==
    {<<"5 ", " 2023">>, <<"", " 5, 2023">>, <<"", " 5 2023">>,
     <<"5-", "-2023">>, <<"5 ", "">>, <<"", " 5">>, <<"5-", "">>}

\* the dates with the month as an alias and as the full name
AliasInputs ==
    {t[1] \o AliasSpellings[c][k] \o t[2] :
        t \in NameTemplates, c \in 1..3, k \in 1..13}
    \cup {t[1] \o MonthNames[m] \o t[2] : t \in NameTemplates, m \in 1..12}

Inputs ==
    FixedInputs \cup CountedInputs \cup PairInputs \cup WithYearInputs
    \cup NoYearInputs \cup LongInputs \cup DecoratedInputs \cup AliasInputs

\* the values of datetime.now(): dates, at the first and last second of the day
RefDates == {<<2024, 2, 1>>, <<2024, 2, 20>>, <<2024, 6, 15>>, <<2025, 3, 1>>}

Refs ==
    {[year |-> r[1], month |-> r[2], day |-> r[3], secs |-> t] :
        r \in RefDates, t \in {0, 86399}}

----------------------------------------------------------------------------
(* The parser and its calls *)

\* self.log(message): print when self.verbose
Log(o, message) == IF verbose THEN Append(o, message) ELSE o

\* lines 47 to 53: the table __init__ builds
MonthMappings ==
    << <<"jan", "january">>, <<"feb", "february">>, <<"mar", "march">>,
       <<"apr", "april">>, <<"may", "may">>, <<"jun", "june">>,
       <<"jul", "july">>, <<"aug", "august">>, <<"sep", "september">>,
       <<"sept", "september">>, <<"oct", "october">>,
       <<"nov", "november">>, <<"dec", "december">> >>

\* TimestampParser.__init__
Init ==
    /\ verbose \in BOOLEAN
    /\ month_mappings = MonthMappings
    /\ frame = "none"
    /\ timestamps = <<>>
    /\ results = <<>>
    /\ clocks = <<>>
    /\ info = <<>>
    /\ prev = <<>>
    /\ pc = "idle"
    /\ timestamp = ""
    /\ now = [year |-> 2024, month |-> 6, day |-> 15, secs |-> 0]
    /\ ts_lower = ""
    /\ ts_cleaned = ""
    /\ result = <<>>
    /\ stage = ""
    /\ attempted = <<>>
    /\ out = <<>>
    /\ processor = [class |-> "none"]
    /\ call = [method |-> "none"]

\* return value: the call ends at stage st with value v (<<>> is None, <<n>>
\* the integer n)
Return(st, v, o) ==
    /\ pc' = "done"
    /\ stage' = st
    /\ result' = v
    /\ out' = o

\* an exception leaves parse_timestamp_to_days
Propagate(o) ==
    /\ pc' = "raised"
    /\ out' = o
    /\ UNCHANGED <<stage, result>>

\* fall through to the next stage
Continue(next) ==
    /\ pc' = next
    /\ UNCHANGED <<stage, result, out>>

\* lines 70 to 73: parse_timestamp_to_days begins on ts, the clock reading n
Enter(ts, n) ==
    /\ timestamp' = ts
    /\ now' = n
    /\ ts_lower' = Strip(Lower(ts))
    /\ out' = Log(<<>>, "parsing")
    /\ pc' = "empty"
    /\ ts_cleaned' = ""
    /\ result' = <<>>
    /\ stage' = ""
    /\ attempted' = <<>>

\* a call of parse_timestamp_to_days from outside the class
Call ==
    /\ pc = "idle"
    /\ frame = "none"
    /\ \E ts \in Inputs, n \in Refs : Enter(ts, n)
    /\ UNCHANGED <<verbose, month_mappings>>
    /\ UNCHANGED outer
    /\ UNCHANGED <<processor, call>>

\* lines 75 and 76
StageEmpty ==
    /\ pc = "empty"
    /\ attempted' = Append(attempted, "empty")
    /\ IF ts_lower = ""
       THEN Return("empty", <<>>, out)
       ELSE Continue("immediate")
    /\ UNCHANGED <<verbose, month_mappings, timestamp, now, ts_lower, ts_cleaned>>
    /\ UNCHANGED outer
    /\ UNCHANGED <<processor, call>>

\* StageImmediate with the return of line 81 inside the branch of log()
StageImmediate_ReturnsWhenVerbose ==
    /\ pc = "immediate"
    /\ attempted' = Append(attempted, "immediate")
    /\ IF MatchesImmediate(ts_lower) /\ verbose
       THEN Return("immediate", <<0>>, Log(out, "immediate"))
       ELSE Continue("time_units")
    /\ UNCHANGED <<verbose, month_mappings, timestamp, now, ts_lower, ts_cleaned>>
    /\ UNCHANGED outer
    /\ UNCHANGED <<processor, call>>

\* lines 79 to 81
StageImmediate ==
    /\ pc = "immediate"
    /\ attempted' = Append(attempted, "immediate")
    /\ IF MatchesImmediate(ts_lower)
       THEN Return("immediate", <<0>>, Log(out, "immediate"))
       ELSE Continue("time_units")
    /\ UNCHANGED <<verbose, month_mappings, timestamp, now, ts_lower, ts_cleaned>>
    /\ UNCHANGED outer
    /\ UNCHANGED <<processor, call>>

\* lines 84 to 94
StageTimeUnits ==
    /\ pc = "time_units"
    /\ attempted' = Append(attempted, "time_units")
    /\ IF MatchesTimeUnit(ts_lower)
       THEN Return("time_units", <<TimeUnitDays(ts_lower)>>, Log(out, "time_unit"))
       ELSE Continue("yesterday")
    /\ UNCHANGED <<verbose, month_mappings, timestamp, now, ts_lower, ts_cleaned>>
    /\ UNCHANGED outer
    /\ UNCHANGED <<processor, call>>

\* StageYesterday with the return of line 99 missing
StageYesterday_NoReturn ==
    /\ pc = "yesterday"
    /\ attempted' = Append(attempted, "yesterday")
    /\ pc' = "relative"
    /\ out' = IF MatchesYesterday(ts_lower) THEN Log(out, "yesterday") ELSE out
    /\ UNCHANGED <<stage, result>>
    /\ UNCHANGED <<verbose, month_mappings, timestamp, now, ts_lower, ts_cleaned>>
    /\ UNCHANGED outer
    /\ UNCHANGED <<processor, call>>

\* lines 97 to 99
StageYesterday ==
    /\ pc = "yesterday"
    /\ attempted' = Append(attempted, "yesterday")
    /\ IF MatchesYesterday(ts_lower)
       THEN Return("yesterday", <<1>>, Log(out, "yesterday"))
       ELSE Continue("relative")
    /\ UNCHANGED <<verbose, month_mappings, timestamp, now, ts_lower, ts_cleaned>>
    /\ UNCHANGED outer
    /\ UNCHANGED <<processor, call>>

\* lines 102 to 112
StageRelative ==
    /\ pc = "relative"
    /\ attempted' = Append(attempted, "relative")
    /\ IF MatchesRelative(ts_lower)
       THEN \E r \in {RelativeDays(ts_lower)} :
               IF r.ok
               THEN Return("relative", <<r.days>>, Log(out, "relative"))
               ELSE Propagate(out)
       ELSE Continue("clean")
    /\ UNCHANGED <<verbose, month_mappings, timestamp, now, ts_lower, ts_cleaned>>
    /\ UNCHANGED outer
    /\ UNCHANGED <<processor, call>>

\* StageClean taking the aliases it found out of self.month_mappings
StageClean_PopsAliases ==
    /\ pc = "clean"
    /\ ts_cleaned' = Clean(ts_lower, month_mappings)
    /\ month_mappings' =
          SelectSeq(month_mappings, LAMBDA e : WordStarts(ts_lower, e[1]) = {})
    /\ pc' = "with_year"
    /\ out' = Log(out, "cleaned")
    /\ UNCHANGED <<verbose, timestamp, now, ts_lower, result, stage, attempted>>
    /\ UNCHANGED outer
    /\ UNCHANGED <<processor, call>>

\* lines 116 to 128
StageClean ==
    /\ pc = "clean"
    /\ ts_cleaned' = Clean(ts_lower, month_mappings)
    /\ pc' = "with_year"
    /\ out' = Log(out, "cleaned")
    /\ UNCHANGED <<verbose, month_mappings, timestamp, now, ts_lower, result,
                   stage, attempted>>
    /\ UNCHANGED outer
    /\ UNCHANGED <<processor, call>>

\* lines 131 to 154
StageWithYear ==
    /\ pc = "with_year"
    /\ attempted' = Append(attempted, "with_year")
    /\ \E r \in {WithYear(ts_cleaned, now)} :
          IF r.ok
          THEN Return("with_year", <<r.days>>, Log(out, "with_year"))
          ELSE IF r.exc # "" THEN Propagate(out)
          ELSE Continue("no_year")
    /\ UNCHANGED <<verbose, month_mappings, timestamp, now, ts_lower, ts_cleaned>>
    /\ UNCHANGED outer
    /\ UNCHANGED <<processor, call>>

\* lines 157 to 185
StageNoYear ==
    /\ pc = "no_year"
    /\ attempted' = Append(attempted, "no_year")
    /\ \E r \in {NoYear(ts_cleaned, now)} :
          IF r.ok
          THEN Return("no_year", <<r.days>>,
                      Log(IF r.last_year THEN Log(out, "last_year") ELSE out,
                          "no_year"))
          ELSE IF r.exc # "" THEN Propagate(out)
          ELSE Continue("special")
    /\ UNCHANGED <<verbose, month_mappings, timestamp, now, ts_lower, ts_cleaned>>
    /\ UNCHANGED outer
    /\ UNCHANGED <<processor, call>>

\* lines 188 to 201
StageSpecial ==
    /\ pc = "special"
    /\ attempted' = Append(attempted, "special")
    /\ IF MatchesSpecial(ts_lower)
       THEN \E r \in {SpecialDays(ts_lower)} :
               IF r.ok
               THEN Return("special", <<r.days>>, Log(out, "special"))
               ELSE Propagate(out)
       ELSE Continue("fallback")
    /\ UNCHANGED <<verbose, month_mappings, timestamp, now, ts_lower, ts_cleaned>>
    /\ UNCHANGED outer
    /\ UNCHANGED <<processor, call>>

\* StageFallback with line 235 returning 0
StageFallback_ReturnsZero ==
    /\ pc = "fallback"
    /\ attempted' = Append(attempted, "fallback")
    /\ \E r \in {Fallback(ts_cleaned, now, month_mappings)} :
          IF r.ok
          THEN Return("fallback", <<r.days>>, Log(out, "fallback"))
          ELSE IF r.exc # "" THEN Propagate(out)
          ELSE Return("failed", <<0>>, Log(out, "failed"))
    /\ UNCHANGED <<verbose, month_mappings, timestamp, now, ts_lower, ts_cleaned>>
    /\ UNCHANGED outer
    /\ UNCHANGED <<processor, call>>

\* lines 205 to 235
StageFallback ==
    /\ pc = "fallback"
    /\ attempted' = Append(attempted, "fallback")
    /\ \E r \in {Fallback(ts_cleaned, now, month_mappings)} :
          IF r.ok
          THEN Return("fallback", <<r.days>>, Log(out, "fallback"))
          ELSE IF r.exc # "" THEN Propagate(out)
          ELSE Return("failed", <<>>, Log(out, "failed"))
    /\ UNCHANGED <<verbose, month_mappings, timestamp, now, ts_lower, ts_cleaned>>
    /\ UNCHANGED outer
    /\ UNCHANGED <<processor, call>>

\* the call is over: its locals are gone
Leave ==
    /\ pc' = "idle"
    /\ timestamp' = ""
    /\ now' = [year |-> 2024, month |-> 6, day |-> 15, secs |-> 0]
    /\ ts_lower' = ""
    /\ ts_cleaned' = ""
    /\ result' = <<>>
    /\ stage' = ""
    /\ attempted' = <<>>
    /\ out' = <<>>

\* the caller takes the returned value
Finish ==
    /\ pc \in {"done", "raised"}
    /\ frame = "none"
    /\ Leave
    /\ UNCHANGED <<verbose, month_mappings>>
    /\ UNCHANGED outer
    /\ UNCHANGED <<processor, call>>

Next ==
    \/ Call
    \/ StageEmpty
    \/ StageImmediate
    \/ StageTimeUnits
    \/ StageYesterday
    \/ StageRelative
    \/ StageClean
    \/ StageWithYear
    \/ StageNoYear
    \/ StageSpecial
    \/ StageFallback
    \/ Finish

Spec == Init /\ [][Next]_vars

----------------------------------------------------------------------------
(* parse_timestamp_to_days as a function of its argument, the clock it reads *)
(* and the table of the parser: how the call ends, at which stage, and the   *)
(* value returned                                                            *)

Returned(st, v) == [pc |-> "done", stage |-> st, result |-> v]

Raised == [pc |-> "raised", stage |-> "", result |-> <<>>]

\* a stage with a conversion or a try block: its return, the exception that
\* leaves it, or the stages after it
StageResult(r, st, otherwise) ==
    IF r.ok THEN Returned(st, <<r.days>>)
    ELSE IF r.exc # "" THEN Raised
    ELSE otherwise

\* lines 131 to 235, for the strings s (ts_lower) and c (ts_cleaned)
ParseCleaned(s, c, n, mm) ==
    StageResult(WithYear(c, n), "with_year",
      StageResult(NoYear(c, n), "no_year",
        IF MatchesSpecial(s)
        THEN StageResult(SpecialDays(s), "special", Raised)
        ELSE StageResult(Fallback(c, n, mm), "fallback",
                         Returned("failed", <<>>))))

\* lines 75 to 235, for the string s (ts_lower)
ParseLower(s, n, mm) ==
    IF s = "" THEN Returned("empty", <<>>)
    ELSE IF MatchesImmediate(s) THEN Returned("immediate", <<0>>)
    ELSE IF MatchesTimeUnit(s) THEN Returned("time_units", <<TimeUnitDays(s)>>)
    ELSE IF MatchesYesterday(s) THEN Returned("yesterday", <<1>>)
    ELSE IF MatchesRelative(s)
         THEN StageResult(RelativeDays(s), "relative", Raised)
    ELSE ParseCleaned(s, Clean(s, mm), n, mm)

\* lines 60 to 235
parse_timestamp_to_days(ts, n, mm) == ParseLower(Strip(Lower(ts)), n, mm)

----------------------------------------------------------------------------
(* The other methods, and callers that come one after another *)

\* lines 274 to 287
categorize_timestamp(days_ago) ==
    IF days_ago = 0 THEN "today"
    ELSE IF days_ago = 1 THEN "yesterday"
    ELSE IF days_ago <= 7 THEN "this_week"
    ELSE IF days_ago <= 30 THEN "this_month"
    ELSE IF days_ago <= 365 THEN "this_year"
    ELSE "older_than_year"

\* ParsedInfo with "if days_ago" for "if days_ago is not None"
ParsedInfo_Truthy(original, days_ago) ==
    [original |-> original,
     days_ago |-> days_ago,
     parsed_successfully |-> days_ago \notin {<<>>, <<0>>},
     category |-> IF days_ago \notin {<<>>, <<0>>}
                  THEN categorize_timestamp(days_ago[1])
                  ELSE "unparseable"]

\* lines 265 to 270: the dictionary built from the argument and the value
\* parse_timestamp_to_days returned
ParsedInfo(original, days_ago) ==
    [original |-> original,
     days_ago |-> days_ago,
     parsed_successfully |-> days_ago # <<>>,
     category |-> IF days_ago # <<>>
                  THEN categorize_timestamp(days_ago[1])
                  ELSE "unparseable"]

\* the arguments of the calls that follow one another
CallInputs ==
    {"just now", "3d", "yesterday", "13 Feb", "5 sept", "27 March 2017",
     "completely invalid gibberish", LongCount \o "d"}

\* the arguments of get_parsed_info
InfoInputs ==
    {"", "just now", "45 minutes ago", "0d", "yesterday", "1d", "2d", "7d",
     "1w", "8d", "30d", "1 month ago", "31d", "365d", "1 year ago", "366d",
     "2 years ago", "13 Feb", "27 March 2017", "completely invalid gibberish",
     LongCount \o "d"}

\* the elements of the lists given to parse_multiple_timestamps
BatchInputs == {"3d", "13 Feb", "completely invalid gibberish"}

\* the lists given to parse_multiple_timestamps
Batches ==
    {<<>>} \cup {<<a>> : a \in BatchInputs}
    \cup {<<a, b>> : a, b \in BatchInputs}
    \cup {<<"3d", "completely invalid gibberish", "13 Feb">>,
          <<"completely invalid gibberish", "3d", "completely invalid gibberish">>,
          <<"3d", LongCount \o "d", "13 Feb">>}

\* the clock readings of the calls that follow one another
CallRefs == {n \in Refs : n.year = 2024 /\ n.month = 2}

\* the calls a later call is compared with
Watched ==
    {<<ts, n>> : ts \in {"just now", "13 Feb", "5 sept"},
                 n \in {r \in CallRefs : r.secs = 0}}

\* lines 302 and 317: parser = TimestampParser(verbose=verbose)
NewParser ==
    /\ pc = "idle"
    /\ frame = "none"
    /\ verbose' \in BOOLEAN
    /\ month_mappings' = MonthMappings
    /\ UNCHANGED <<pc, timestamp, now, ts_lower, ts_cleaned, result, stage,
                   attempted, out>>
    /\ UNCHANGED outer
    /\ UNCHANGED <<processor, call>>

\* one more call of parse_timestamp_to_days on the parser
CallAgain ==
    /\ pc = "idle"
    /\ frame = "none"
    /\ \E ts \in CallInputs, n \in CallRefs : Enter(ts, n)
    /\ UNCHANGED <<verbose, month_mappings>>
    /\ UNCHANGED outer
    /\ UNCHANGED <<processor, call>>

\* the caller takes the returned value and keeps it for later
Keep ==
    /\ pc \in {"done", "raised"}
    /\ frame = "none"
    /\ prev = <<>>
    /\ <<timestamp, now>> \in Watched
    /\ prev' = <<[timestamp |-> timestamp, now |-> now, verbose |-> verbose,
                  pc |-> pc, result |-> result, stage |-> stage]>>
    /\ Leave
    /\ UNCHANGED <<verbose, month_mappings, frame, timestamps, results, clocks,
                   info>>
    /\ UNCHANGED <<processor, call>>

\* line 263: get_parsed_info calls parse_timestamp_to_days
InfoCall ==
    /\ pc = "idle"
    /\ frame = "none"
    /\ frame' = "info"
    /\ info' = <<>>
    /\ \E ts \in InfoInputs, n \in CallRefs : Enter(ts, n)
    /\ UNCHANGED <<verbose, month_mappings, timestamps, results, clocks, prev>>
    /\ UNCHANGED <<processor, call>>

\* lines 265 to 272
InfoReturn ==
    /\ frame = "info"
    /\ pc = "done"
    /\ info' = <<ParsedInfo(timestamp, result)>>
    /\ frame' = "info_done"
    /\ Leave
    /\ UNCHANGED <<verbose, month_mappings, timestamps, results, clocks, prev>>
    /\ UNCHANGED <<processor, call>>

\* MultipleCall switching the log off for the batch: self.verbose = False
MultipleCall_Quiet ==
    /\ pc = "idle"
    /\ frame = "none"
    /\ frame' = "multiple"
    /\ timestamps' \in Batches
    /\ results' = <<>>
    /\ clocks' = <<>>
    /\ verbose' = FALSE
    /\ UNCHANGED <<month_mappings, pc, timestamp, now, ts_lower, ts_cleaned,
                   result, stage, attempted, out, info, prev>>
    /\ UNCHANGED <<processor, call>>

\* line 247: parse_multiple_timestamps begins
MultipleCall ==
    /\ pc = "idle"
    /\ frame = "none"
    /\ frame' = "multiple"
    /\ timestamps' \in Batches
    /\ results' = <<>>
    /\ clocks' = <<>>
    /\ UNCHANGED <<verbose, month_mappings, pc, timestamp, now, ts_lower,
                   ts_cleaned, result, stage, attempted, out, info, prev>>
    /\ UNCHANGED <<processor, call>>

\* lines 248 and 249: the loop calls parse_timestamp_to_days on the next element
MultipleNext ==
    /\ frame = "multiple"
    /\ pc = "idle"
    /\ Len(results) < Len(timestamps)
    /\ \E n \in CallRefs : Enter(timestamps[Len(results) + 1], n)
    /\ UNCHANGED <<verbose, month_mappings>>
    /\ UNCHANGED outer
    /\ UNCHANGED <<processor, call>>

\* line 250
MultipleAppend ==
    /\ frame = "multiple"
    /\ pc = "done"
    /\ results' = Append(results, <<timestamp, result>>)
    /\ clocks' = Append(clocks, now)
    /\ Leave
    /\ UNCHANGED <<verbose, month_mappings, frame, timestamps, info, prev>>
    /\ UNCHANGED <<processor, call>>

\* line 251
MultipleReturn ==
    /\ frame = "multiple"
    /\ pc = "idle"
    /\ Len(results) = Len(timestamps)
    /\ frame' = "multiple_done"
    /\ UNCHANGED <<verbose, month_mappings, pc, timestamp, now, ts_lower,
                   ts_cleaned, result, stage, attempted, out, timestamps,
                   results, clocks, info, prev>>
    /\ UNCHANGED <<processor, call>>

\* an exception of parse_timestamp_to_days leaves the method that called it
OuterRaise ==
    /\ frame \in {"info", "multiple"}
    /\ pc = "raised"
    /\ frame' = frame \o "_raised"
    /\ Leave
    /\ UNCHANGED <<verbose, month_mappings, timestamps, results, clocks, info,
                   prev>>
    /\ UNCHANGED <<processor, call>>

\* the caller of get_parsed_info or parse_multiple_timestamps takes what it
\* returned
OuterFinish ==
    /\ frame \in {"info_done", "info_raised", "multiple_done", "multiple_raised"}
    /\ frame' = "none"
    /\ timestamps' = <<>>
    /\ results' = <<>>
    /\ clocks' = <<>>
    /\ info' = <<>>
    /\ UNCHANGED <<verbose, month_mappings, pc, timestamp, now, ts_lower,
                   ts_cleaned, result, stage, attempted, out, prev>>
    /\ UNCHANGED <<processor, call>>

NextCalls ==
    \/ NewParser
    \/ CallAgain
    \/ StageEmpty
    \/ StageImmediate
    \/ StageTimeUnits
    \/ StageYesterday
    \/ StageRelative
    \/ StageClean
    \/ StageWithYear
    \/ StageNoYear
    \/ StageSpecial
    \/ StageFallback
    \/ Finish
    \/ Keep
    \/ InfoCall
    \/ InfoReturn
    \/ MultipleCall
    \/ MultipleNext
    \/ MultipleAppend
    \/ MultipleReturn
    \/ OuterRaise
    \/ OuterFinish

SpecCalls == Init /\ [][NextCalls]_vars

----------------------------------------------------------------------------
(* Calls on dates, read on the days around the end of February and the end *)
(* of the year                                                              *)

\* what is written in the fields of a date with slashes
SlashFields == {"0", "1", "2", "02", "3", "12", "13", "29", "31", "32"}

SlashYears == {"2023", "2024"}

\* the arguments: dates with slashes, a day and a month with and without a
\* clock time behind them, the 29th of February in the yearless formats, dates
\* with a year, and phrases of the relative stages
DatedInputs ==
    {a \o "/" \o b : a, b \in SlashFields}
    \cup {a \o "/" \o b \o "/" \o y : a, b \in SlashFields, y \in SlashYears}
    \cup {d \o " " \o m \o t :
            d \in {"1", "5", "13", "29", "31"},
            m \in {"Feb", "sept", "march", "Dec", "jan"},
            t \in {"", " 10:37", " 3:45", " 17:50:09", " 9:05 pm"}}
    \cup {"29 february", "feb 29", "february 29", "29-feb", "29-february",
          "29 Feb at 10:37", "Feb 29 10:37", "Feb 13 10:37", "28 feb", "2 mar",
          "27 March 2017", "March 27, 2017", "1 march 2024", "2024-03-01",
          "29 feb 2024", "29 feb 2023", "2 march 2025", "2025-03-02",
          "on 1 mar 2024 by x", "on 2 mar 2025 by x", "3d", "2 hours ago",
          "yesterday", "just now", "2 months ago", "1 year ago", "",
          "invalid timestamp"}

\* the values of datetime.now(): dates, at the first and last second of the day
DatedRefs ==
    {[year |-> r[1], month |-> r[2], day |-> r[3], secs |-> t] :
        r \in {<<2023, 6, 15>>, <<2024, 2, 28>>, <<2024, 2, 29>>,
               <<2024, 3, 1>>, <<2024, 12, 31>>, <<2025, 1, 1>>,
               <<2025, 2, 28>>, <<2025, 3, 1>>},
        t \in {0, 86399}}

\* a call of parse_timestamp_to_days on one of these
CallDated ==
    /\ pc = "idle"
    /\ frame = "none"
    /\ \E ts \in DatedInputs, n \in DatedRefs : Enter(ts, n)
    /\ UNCHANGED <<verbose, month_mappings>>
    /\ UNCHANGED outer
    /\ UNCHANGED <<processor, call>>

NextDates ==
    \/ CallDated
    \/ StageEmpty
    \/ StageImmediate
    \/ StageTimeUnits
    \/ StageYesterday
    \/ StageRelative
    \/ StageClean
    \/ StageWithYear
    \/ StageNoYear
    \/ StageSpecial
    \/ StageFallback
    \/ Finish

SpecDates == Init /\ [][NextDates]_vars

----------------------------------------------------------------------------
(* The keyword processor (MashWords/KeywordProcessor.py). None is <<>> and  *)
(* a value that may be None is <<v>>; a dictionary is a record, and a key    *)
(* a dictionary does not have is a field the record does not have            *)

\* the elements of a set of indexes in increasing order: the order of a list,
\* and of the keys of a dictionary in the order of their insertion
RECURSIVE Ascending(_)
Ascending(S) ==
    IF S = {} THEN <<>> ELSE <<Min(S)>> \o Ascending(S \ {Min(S)})

\* list.extend, for each list of lists in turn
RECURSIVE Extend(_)
Extend(lists) ==
    IF lists = <<>> THEN <<>> ELSE Head(lists) \o Extend(Tail(lists))

\* lines 35 to 94: KeywordCondition(condition_str), with what
\* get_all_combinations() returns for it
KeywordCondition(condition_str) ==
    LET original == Strip(condition_str)
        RECURSIVE Split(_, _)
        Split(s, c) ==
            LET at == {i \in 1..Len(s) : Char(s, i) = c}
            IN IF at = {} THEN <<s>>
               ELSE <<SubSeq(s, 1, Min(at) - 1)>>
                        \o Split(SubSeq(s, Min(at) + 1, Len(s)), c)
        \* [part.strip() for part in s.split(c) if part.strip()]
        Parts(s, c) ==
            SelectSeq([i \in 1..Len(Split(s, c)) |-> Strip(Split(s, c)[i])],
                      LAMBDA part : part # "")
        RECURSIVE Join(_)
        Join(group) ==
            IF group = <<>> THEN ""
            ELSE IF Len(group) = 1 THEN group[1]
            ELSE group[1] \o " " \o Join(Tail(group))
        type ==
            IF Contains(original, "+") /\ Contains(original, ",") THEN "MIXED"
            ELSE IF Contains(original, "+") THEN "AND"
            ELSE IF Contains(original, ",") THEN "OR"
            ELSE "SIMPLE"
        keywords ==
            CASE type = "SIMPLE" -> <<<<Strip(original)>>>>
              [] type = "AND" -> <<Parts(original, "+")>>
              [] type = "OR" ->
                    [i \in 1..Len(Parts(original, ",")) |->
                        <<Parts(original, ",")[i]>>]
              [] type = "MIXED" ->
                    [i \in 1..Len(Split(original, ",")) |->
                        LET part == Strip(Split(original, ",")[i])
                        IN IF Contains(part, "+") THEN Parts(part, "+")
                           ELSE <<part>>]
    IN [original |-> original,
        type |-> type,
        keywords |-> keywords,
        combinations |->
            [i \in 1..Len(keywords) |->
                IF Len(keywords[i]) = 1 THEN keywords[i][1]
                ELSE Join(keywords[i])]]

\* lines 110 to 133: OptimizedKeywordProcessor(main_keywords,
\* secondary_keywords), _expand_main_keywords included
OptimizedKeywordProcessor(main_keywords, secondary_keywords) ==
    LET raw == SelectSeq(
                   [i \in 1..Len(main_keywords) |-> Strip(main_keywords[i])],
                   LAMBDA kw : kw # "")
        conditions == [i \in 1..Len(raw) |-> KeywordCondition(raw[i])]
        expanded ==
            Extend([i \in 1..Len(conditions) |-> conditions[i].combinations])
        unique == Ascending({i \in 1..Len(expanded) :
                                \A j \in 1..(i - 1) : expanded[j] # expanded[i]})
    IN [class |-> "OptimizedKeywordProcessor",
        main_keywords_raw |-> raw,
        secondary_keywords |->
            [i \in 1..Len(secondary_keywords) |-> Strip(secondary_keywords[i])],
        main_conditions |-> conditions,
        main_keywords |-> [k \in 1..Len(unique) |-> expanded[unique[k]]]]

\* lines 142 to 176
generate_basic_combinations(self) ==
    LET mains == self.main_keywords
        secondaries == self.secondary_keywords
    IN [i \in 1..Len(mains) |->
            [search_term |-> mains[i],
             type |-> "main_only",
             main_keyword |-> mains[i],
             secondary_keyword |-> <<>>,
             pattern |-> "standalone"]]
       \o Extend(
            [i \in 1..Len(mains) |->
                Extend(
                    [j \in 1..Len(secondaries) |->
                        <<[search_term |-> secondaries[j] \o " " \o mains[i],
                           type |-> "secondary_main",
                           main_keyword |-> mains[i],
                           secondary_keyword |-> <<secondaries[j]>>,
                           pattern |-> "secondary_prefix"],
                          [search_term |-> mains[i] \o " " \o secondaries[j],
                           type |-> "main_secondary",
                           main_keyword |-> mains[i],
                           secondary_keyword |-> <<secondaries[j]>>,
                           pattern |-> "main_prefix"]>>])])

\* generate_progressive_sequences typing the whole search term letter by
\* letter: search_term[:i] in place of the partial secondary and the main
\* keyword
generate_progressive_sequences_WholeTerm(combination) ==
    IF combination.type = "main_only" THEN <<combination>>
    ELSE [k \in 1..(Len(combination.search_term) - 2) |->
            [search_term |-> SubSeq(combination.search_term, 1, k + 2),
             type |-> "progressive",
             main_keyword |-> combination.main_keyword,
             secondary_keyword |-> combination.secondary_keyword,
             partial_secondary |-> SubSeq(combination.search_term, 1, k + 2),
             pattern |-> combination.pattern,
             progress |-> <<k + 2, Len(combination.search_term)>>,
             step |-> k + 2,
             total_steps |-> Len(combination.search_term)]]

\* lines 189 to 223; range(3, len(secondary_kw) + 1) is empty for a secondary
\* keyword of fewer than 3 characters; progress is the quotient of the pair
generate_progressive_sequences(combination) ==
    IF combination.type = "main_only" THEN <<combination>>
    ELSE LET main_kw == combination.main_keyword
             secondary_kw == combination.secondary_keyword[1]
             pattern == combination.pattern
             steps == IF Len(secondary_kw) >= 3
                      THEN Ascending(3..Len(secondary_kw)) ELSE <<>>
         IN [k \in 1..Len(steps) |->
                LET partial_secondary == SubSeq(secondary_kw, 1, steps[k])
                IN [search_term |->
                        IF pattern = "secondary_prefix"
                        THEN partial_secondary \o " " \o main_kw
                        ELSE main_kw \o " " \o partial_secondary,
                    type |-> "progressive",
                    main_keyword |-> main_kw,
                    secondary_keyword |-> <<secondary_kw>>,
                    partial_secondary |-> partial_secondary,
                    pattern |-> pattern,
                    progress |-> <<steps[k], Len(secondary_kw)>>,
                    step |-> steps[k],
                    total_steps |-> Len(secondary_kw)]]

\* BestOf keeping the first entry of the group whatever it is
BestOf_First(all_sequences, group) == Min(group)

\* lines 260 to 264: max(sequences, key=...), sequences the entries of
\* all_sequences at the indexes of group; the key is the length of the partial
\* secondary ('' when there is none), whether the pattern is secondary_prefix,
\* and minus the index of the first equal entry of the group; max returns the
\* first entry with the greatest key
BestOf(all_sequences, group) ==
    LET Partial(i) == IF "partial_secondary" \in DOMAIN all_sequences[i]
                      THEN Len(all_sequences[i].partial_secondary) ELSE 0
        Prefers(i) == IF /\ "pattern" \in DOMAIN all_sequences[i]
                         /\ all_sequences[i].pattern = "secondary_prefix"
                      THEN 1 ELSE 0
        Index(i) == Cardinality(
                        {j \in group :
                            j < Min({k \in group :
                                       all_sequences[k] = all_sequences[i]})})
        AtLeast(i, j) ==
            \/ Partial(i) > Partial(j)
            \/ /\ Partial(i) = Partial(j)
               /\ \/ Prefers(i) > Prefers(j)
                  \/ Prefers(i) = Prefers(j) /\ Index(i) <= Index(j)
    IN Min({i \in group : \A j \in group : AtLeast(i, j)})

\* lines 236 to 285
deduplicate_sequences(all_sequences) ==
    LET n == Len(all_sequences)
        Group(i) == {j \in 1..n : all_sequences[j].search_term
                                      = all_sequences[i].search_term}
        terms == {i \in 1..n : i = Min(Group(i))}
        conflicts == {i \in terms : Cardinality(Group(i)) > 1}
        Chosen(i) == IF i \in conflicts THEN BestOf(all_sequences, Group(i))
                     ELSE i
        Source(s) ==
            (IF "secondary_keyword" \in DOMAIN s
             THEN (IF s.secondary_keyword = <<>> THEN "None"
                   ELSE s.secondary_keyword[1])
             ELSE "N/A")
            \o " (" \o (IF "pattern" \in DOMAIN s THEN s.pattern ELSE "unknown")
            \o ")"
        recorded == Ascending({i \in conflicts :
                                  Cardinality({j \in conflicts : j < i}) < 3})
        conflict_stats ==
            [total_conflicts |-> Cardinality(conflicts),
             resolved_conflicts |-> Cardinality(conflicts),
             examples |->
                [k \in 1..Len(recorded) |->
                    [search_term |-> all_sequences[recorded[k]].search_term,
                     conflicting_sources |->
                        [g \in 1..Cardinality(Group(recorded[k])) |->
                            Source(all_sequences[
                                Ascending(Group(recorded[k]))[g]])],
                     chosen_source |->
                        Source(all_sequences[Chosen(recorded[k])])]]]
        order == Ascending(terms)
    IN [k \in 1..Len(order) |->
            ("deduplication_stats" :> conflict_stats)
                @@ all_sequences[Chosen(order[k])]]

\* lines 295 to 328
get_optimized_search_terms(self) ==
    LET basic_combinations == generate_basic_combinations(self)
        all_sequences ==
            Extend([i \in 1..Len(basic_combinations) |->
                       generate_progressive_sequences(basic_combinations[i])])
        final_sequences == deduplicate_sequences(all_sequences)
    IN [search_terms |->
            [i \in 1..Len(final_sequences) |-> final_sequences[i].search_term],
        metadata |->
            [main_keywords_raw |-> self.main_keywords_raw,
             main_keywords_expanded |-> self.main_keywords,
             condition_analysis |->
                [i \in 1..Len(self.main_conditions) |->
                    [original |-> self.main_conditions[i].original,
                     type |-> self.main_conditions[i].type,
                     combinations |-> self.main_conditions[i].combinations]],
             basic_combinations_count |-> Len(basic_combinations),
             total_sequences_before_dedup |-> Len(all_sequences),
             final_sequences_count |-> Len(final_sequences),
             deduplication_stats |->
                IF final_sequences # <<>>
                THEN final_sequences[1].deduplication_stats ELSE <<>>,
             sequences_detail |-> final_sequences]]

\* lines 405 to 414: KeywordProcessor(main_keywords, min_progressive_length,
\* max_progressive_length, enable_smart_filtering)
KeywordProcessor(main_keywords, min_progressive_length, max_progressive_length, enable_smart_filtering) ==
    [class |-> "KeywordProcessor",
     min_progressive_length |-> min_progressive_length,
     max_progressive_length |-> max_progressive_length,
     enable_smart_filtering |-> enable_smart_filtering,
     processed_keywords |-> <<>>,
     analysis_data |-> <<>>]
        @@ OptimizedKeywordProcessor(main_keywords, <<>>)

\* lines 429 to 456: the processor after the call, and the list returned
process_keyword_list(self, user_keywords) ==
    LET stripped ==
            SelectSeq([i \in 1..Len(user_keywords) |-> Strip(user_keywords[i])],
                      LAMBDA kw : kw # "")
        kept == SelectSeq(
                    stripped,
                    LAMBDA keyword :
                        ~(/\ self.enable_smart_filtering
                          /\ Len(keyword) < self.min_progressive_length))
        Truncated(keyword) ==
            IF /\ self.enable_smart_filtering
               /\ Len(keyword) > self.max_progressive_length
            THEN SubSeq(keyword, 1, self.max_progressive_length)
            ELSE keyword
        processed ==
            [i \in 1..Len(kept) |->
                [original |-> Truncated(kept[i]),
                 processed |-> Truncated(kept[i]),
                 length |-> Len(Truncated(kept[i])),
                 type |-> "user_keyword"]]
    IN [self |-> [self EXCEPT !.secondary_keywords = stripped,
                              !.processed_keywords = processed],
        returned |-> processed]

\* lines 469 to 481: the processor after the call, and the list returned
get_all_search_terms(self, user_keywords) ==
    LET ensured == IF self.processed_keywords = <<>>
                   THEN process_keyword_list(self, user_keywords).self
                   ELSE self
        updated ==
            [ensured EXCEPT
                !.secondary_keywords =
                    [i \in 1..Len(ensured.processed_keywords) |->
                        ensured.processed_keywords[i].processed]]
        optimized == get_optimized_search_terms(updated)
    IN [self |-> [updated EXCEPT !.analysis_data = optimized.metadata],
        returned |-> optimized.search_terms]

----------------------------------------------------------------------------
(* The calls on a keyword processor *)

\* the longest list handed to deduplicate_sequences
MaxBatch == 3

\* the lists of main keywords the processors are built with
MainKeywordChoices ==
    {<<"Delhi">>, <<"Delhi, Mumbai">>, <<"Mouse+Cheese">>,
     <<"Delhi, Packet, Mouse+Cheese">>, <<" Goa ", "", "Goa,Goa">>, <<"aaa">>,
     <<"a", "a bcd">>}

\* the lists of secondary keywords, and of user keywords
KeywordChoices ==
    {<<>>, <<"Food">>, <<"Travel">>, <<"Food", "Fun">>, <<"AI">>,
     <<"Food", "Foot">>, <<"a", " ", " Go ">>, <<"Photographers">>,
     <<"aaa", "aaab">>, <<"bcd efg", "efg">>}

\* lines 542 to 568 and 576 to 581: processor = OptimizedKeywordProcessor(
\* main_keywords=..., secondary_keywords=...), or processor = KeywordProcessor(
\* main_keywords=..., ...) with the lengths of the demonstration
NewProcessor ==
    /\ call.method = "none"
    /\ \/ \E main_keywords \in MainKeywordChoices,
             secondary_keywords \in KeywordChoices :
               processor' = OptimizedKeywordProcessor(main_keywords,
                                                      secondary_keywords)
       \/ \E main_keywords \in {<<"Delhi">>, <<"Delhi, Mumbai">>},
             enable_smart_filtering \in BOOLEAN :
               processor' = KeywordProcessor(main_keywords, 2, 12,
                                             enable_smart_filtering)
    /\ call' = [method |-> "__init__"]
    /\ UNCHANGED <<verbose, month_mappings, pc, timestamp, now, ts_lower,
                   ts_cleaned, result, stage, attempted, out>>
    /\ UNCHANGED outer

\* the caller goes on with what the call returned (lines 546 to 548, 584 to
\* 586)
TakeReturned ==
    /\ call.method # "none"
    /\ call' = [method |-> "none"]
    /\ UNCHANGED processor
    /\ UNCHANGED <<verbose, month_mappings, pc, timestamp, now, ts_lower,
                   ts_cleaned, result, stage, attempted, out>>
    /\ UNCHANGED outer

\* lines 546, 557, 569: processor.get_optimized_search_terms()
GetOptimizedSearchTerms ==
    /\ call.method = "none"
    /\ processor.class # "none"
    /\ call' = [method |-> "get_optimized_search_terms",
                returned |-> get_optimized_search_terms(processor)]
    /\ UNCHANGED processor
    /\ UNCHANGED <<verbose, month_mappings, pc, timestamp, now, ts_lower,
                   ts_cleaned, result, stage, attempted, out>>
    /\ UNCHANGED outer

\* line 300: generate_progressive_sequences(combination), for a combination of
\* the processor
GenerateProgressiveSequences ==
    /\ call.method = "none"
    /\ processor.class # "none"
    /\ \E basic \in {generate_basic_combinations(processor)} :
         \E k \in 1..Len(basic) :
            call' = [method |-> "generate_progressive_sequences",
                     combination |-> basic[k],
                     returned |-> generate_progressive_sequences(basic[k])]
    /\ UNCHANGED processor
    /\ UNCHANGED <<verbose, month_mappings, pc, timestamp, now, ts_lower,
                   ts_cleaned, result, stage, attempted, out>>
    /\ UNCHANGED outer

\* line 304: deduplicate_sequences(all_sequences), for a list of up to MaxBatch
\* of the sequences of the processor that share their search term with
\* another, in any order and with repetitions
DeduplicateSequences ==
    /\ call.method = "none"
    /\ processor.class = "OptimizedKeywordProcessor"
    /\ \E basic \in {generate_basic_combinations(processor)} :
         \E sequences \in
                {Extend([i \in 1..Len(basic) |->
                            generate_progressive_sequences(basic[i])])} :
           \E pool \in
                {SelectSeq(
                    sequences,
                    LAMBDA s :
                        Cardinality({i \in 1..Len(sequences) :
                                        sequences[i].search_term
                                            = s.search_term}) > 1)} :
             \E n \in 0..MaxBatch :
               \E chosen \in [1..n -> 1..Len(pool)] :
                 \E all_sequences \in {[i \in 1..n |-> pool[chosen[i]]]} :
                    call' = [method |-> "deduplicate_sequences",
                             all_sequences |-> all_sequences,
                             returned |-> deduplicate_sequences(all_sequences)]
    /\ UNCHANGED processor
    /\ UNCHANGED <<verbose, month_mappings, pc, timestamp, now, ts_lower,
                   ts_cleaned, result, stage, attempted, out>>
    /\ UNCHANGED outer

\* line 584: processor.process_keyword_list(user_keywords)
ProcessKeywordList ==
    /\ call.method = "none"
    /\ processor.class = "KeywordProcessor"
    /\ \E user_keywords \in KeywordChoices :
         \E r \in {process_keyword_list(processor, user_keywords)} :
            /\ processor' = r.self
            /\ call' = [method |-> "process_keyword_list",
                        user_keywords |-> user_keywords,
                        returned |-> r.returned]
    /\ UNCHANGED <<verbose, month_mappings, pc, timestamp, now, ts_lower,
                   ts_cleaned, result, stage, attempted, out>>
    /\ UNCHANGED outer

\* line 585: processor.get_all_search_terms(user_keywords)
GetAllSearchTerms ==
    /\ call.method = "none"
    /\ processor.class = "KeywordProcessor"
    /\ \E user_keywords \in KeywordChoices :
         \E r \in {get_all_search_terms(processor, user_keywords)} :
            /\ processor' = r.self
            /\ call' = [method |-> "get_all_search_terms",
                        user_keywords |-> user_keywords,
                        returned |-> r.returned]
    /\ UNCHANGED <<verbose, month_mappings, pc, timestamp, now, ts_lower,
                   ts_cleaned, result, stage, attempted, out>>
    /\ UNCHANGED outer

NextWords ==
    \/ NewProcessor
    \/ TakeReturned
    \/ GetOptimizedSearchTerms
    \/ GenerateProgressiveSequences
    \/ DeduplicateSequences
    \/ ProcessKeywordList
    \/ GetAllSearchTerms

SpecWords == Init /\ [][NextWords]_vars

----------------------------------------------------------------------------
(* The words of the claims *)

CascadeOrder ==
    <<"empty", "immediate", "time_units", "yesterday", "relative", "with_year",
      "no_year", "special", "fallback">>

\* stage st, were it the only stage, would match the argument of the running
\* call
Produces(st) ==
    LET c == Clean(ts_lower, month_mappings)
    IN CASE st = "empty" -> ts_lower = ""
         [] st = "immediate" -> MatchesImmediate(ts_lower)
         [] st = "time_units" -> MatchesTimeUnit(ts_lower)
         [] st = "yesterday" -> MatchesYesterday(ts_lower)
         [] st = "relative" -> MatchesRelative(ts_lower)
         [] st = "with_year" -> WithYear(c, now).ok
         [] st = "no_year" -> NoYear(c, now).ok
         [] st = "special" -> MatchesSpecial(ts_lower)
         [] st = "fallback" -> Fallback(c, now, month_mappings).ok

\* the text of the argument as the claims read it: letter case ignored
Text == Lower(timestamp)

\* a call has ended, with a value or with an exception
Ended == pc \in {"done", "raised"}

\* the call has returned v
Returns(v) == pc = "done" /\ result = v

NoDigit(s) == \A i \in 1..Len(s) : ~IsDigit(Char(s, i))

HasPhrase(s) ==
    \E phrase \in {"just now", " now", "a moment ago", "moments ago"} :
        Contains(s, phrase)

\* the integers of s followed by one of the tokens: the indexes at which a
\* whole run of digits starts that has, after spaces or directly after it, a
\* token that ends the string or stands before a character that is no letter,
\* digit or underscore
Counted(s, tokens) ==
    {i \in 1..Len(s) :
        /\ IsDigit(Char(s, i))
        /\ ~IsDigit(Char(s, i - 1))
        /\ LET j == DigitRunEnd(s, i)
           IN \E k \in (j + 1)..Len(s), t \in tokens :
                /\ \A x \in (j + 1)..(k - 1) : Char(s, x) = " "
                /\ StartsAt(s, k, t)
                /\ ~IsWord(Char(s, k + Len(t)))}

\* the digits of the first of these integers
FirstCount(s, tokens) ==
    LET i == Min(Counted(s, tokens)) IN SubSeq(s, i, DigitRunEnd(s, i))

SubDayTokens ==
    {"s", "sec", "secs", "second", "seconds", "m", "min", "mins", "minute",
     "minutes", "h", "hr", "hrs", "hour", "hours"}

DayTokens == {"d", "day", "days"}

WeekTokens == {"w", "wk", "week", "weeks"}

\* stages 2 to 4 do not match the argument
NoneOfStages2To4 ==
    /\ ~HasPhrase(Strip(Text))
    /\ Counted(Text, SubDayTokens) = {}
    /\ ~Contains(Text, "yesterday")

\* stages 2 to 5 do not match the argument
NoneOfStages2To5 ==
    /\ NoneOfStages2To4
    /\ Counted(Text, DayTokens \cup WeekTokens) = {}

\* the days from the date <<day, month, year>> to the date of now, 0 for a date
\* after it
DaysSince(dt) ==
    LET diff == Ordinal(now.year, now.month, now.day)
                    - Ordinal(dt[3], dt[2], dt[1])
    IN IF diff >= 0 THEN diff ELSE 0

OnDate(y, m, d) == now.year = y /\ now.month = m /\ now.day = d

----------------------------------------------------------------------------
(* C1 *)

\* the stages entered so far are the first stages of the cascade, each once
C1_InOrder ==
    /\ Len(attempted) <= Len(CascadeOrder)
    /\ attempted = SubSeq(CascadeOrder, 1, Len(attempted))

\* the call ended at the first stage that produces a value, or after the last
\* stage when none does
C1_Decided ==
    pc = "done" =>
        LET k == Len(attempted)
        IN /\ k >= 1
           /\ \A j \in 1..(k - 1) : ~Produces(CascadeOrder[j])
           /\ IF Produces(CascadeOrder[k])
              THEN stage = CascadeOrder[k] /\ (result = <<>> <=> k = 1)
              ELSE k = Len(CascadeOrder) /\ stage = "failed" /\ result = <<>>

\* C1: the result is decided by the first stage that matches, in the fixed
\* order empty check, immediate phrases, sub-day units, yesterday, day/week
\* shorthand, date with year, date without year, N units ago, loose fallback;
\* once a stage has produced the result no later stage is entered, and no stage
\* is entered twice.
C1_FirstMatchDecides ==
    /\ [](C1_InOrder /\ C1_Decided)
    /\ [][pc = "done" => pc' = "idle"]_vars

\* a call decided by 'yesterday' on a string the day/week shorthand matches too
C1_Witness ==
    /\ pc = "done"
    /\ stage = "yesterday"
    /\ Produces("relative")
    /\ attempted = SubSeq(CascadeOrder, 1, 4)

----------------------------------------------------------------------------
(* C2 *)

\* C2: the value returned is None or an integer greater than or equal to 0.
C2_NeverNegative == result = <<>> \/ result[1] >= 0

\* a date after the reference date, returned as 0
C2_Witness ==
    /\ pc = "done"
    /\ stage = "with_year"
    /\ result = <<0>>
    /\ LET dt == Strptime(ts_cleaned, "%d %B %Y")
       IN dt.ok /\ DateAfter(dt, now)

----------------------------------------------------------------------------
(* C3 *)

\* C3: no call ends with an exception. (Violated: int() raises ValueError for
\* a count of more than int_max_str_digits digits, at lines 103, 104 and 190
\* to 193, outside every try.)
C3_NoException == pc # "raised"

\* the exceptions of the date stages are caught: a call that ends with an
\* exception ends in the day/week shorthand or in the N units ago stage
DateStagesCatch ==
    pc = "raised" => attempted[Len(attempted)] \in {"relative", "special"}

----------------------------------------------------------------------------
(* C4 *)

\* C4: an input that is empty once trimmed, and an input with no digit, no
\* immediate phrase and no 'yesterday', returns None: not 0, not an exception.
C4_Unparseable ==
    Ended
    /\ \/ Strip(timestamp) = ""
       \/ /\ NoDigit(timestamp)
          /\ ~HasPhrase(Text)
          /\ ~Contains(Text, "yesterday")
    => Returns(<<>>)

C4_Witness ==
    /\ pc = "done"
    /\ timestamp = "completely invalid gibberish"
    /\ stage = "failed"
    /\ result = <<>>

----------------------------------------------------------------------------
(* C5 *)

\* C5 as stated: an input that contains 'just now', 'a moment ago', 'moments
\* ago' or ' now', in any letter case, returns 0. (Violated: line 70 trims the
\* input first, and an input that begins with ' now' has lost the space.)
C5_AnyOccurrence == Ended /\ HasPhrase(Text) => Returns(<<0>>)

\* C5: an input whose trimmed form contains 'just now', 'a moment ago',
\* 'moments ago' or ' now', in any letter case, returns 0.
C5_Immediate == Ended /\ HasPhrase(Strip(Text)) => Returns(<<0>>)

\* ' now' inside the input, in capitals
C5_Witness ==
    /\ pc = "done"
    /\ timestamp = "JUST NOW"
    /\ stage = "immediate"
    /\ result = <<0>>

----------------------------------------------------------------------------
(* C6 *)

\* C6: an input in which an integer is followed, with or without spaces, by a
\* seconds, minutes or hours unit in one of its spellings returns 0, whatever
\* the integer and whatever else the input holds.
C6_SubDayIsZero ==
    Ended /\ Counted(Text, SubDayTokens) # {} => Returns(<<0>>)

C6_Witness ==
    /\ pc = "done"
    /\ timestamp = "500 hours ago"
    /\ stage = "time_units"
    /\ result = <<0>>

----------------------------------------------------------------------------
(* C7 *)

\* C7: for every reference instant, an input that contains 'yesterday' and
\* matches neither an immediate phrase nor a sub-day unit returns 1, whatever
\* else it holds (a time of day, a day/week shorthand, a date).
C7_Yesterday ==
    /\ Ended
    /\ Contains(Text, "yesterday")
    /\ ~HasPhrase(Strip(Text))
    /\ Counted(Text, SubDayTokens) = {}
    => Returns(<<1>>)

C7_Witness ==
    /\ pc = "done"
    /\ timestamp = "yesterday at 3:45 PM"
    /\ now.secs > 0
    /\ result = <<1>>

----------------------------------------------------------------------------
(* C8 *)

\* C8: when stages 2 to 4 do not match, an input with an integer N followed by
\* a day token returns N, and otherwise an input with an integer N followed by
\* a week token returns 7 * N; the day pattern goes first wherever the two
\* stand. (Violated: for N of more than int_max_str_digits digits the call
\* raises ValueError, see C3.)
C8_Shorthand ==
    Ended /\ NoneOfStages2To4 =>
        IF Counted(Text, DayTokens) # {}
        THEN /\ pc = "done"
             /\ result = <<ToInt(FirstCount(Text, DayTokens))>>
        ELSE IF Counted(Text, WeekTokens) # {}
        THEN /\ pc = "done"
             /\ result = <<7 * ToInt(FirstCount(Text, WeekTokens))>>
        ELSE TRUE

----------------------------------------------------------------------------
(* C9 *)

\* the calendar dates of SampleDates written with their year in the formats of
\* date_formats_with_year, each with the date <<day, month, year>> it is
\* written from
WrittenWithYear ==
    {[text |-> Render(date_formats_with_year[p[1]], 1, p[2][1], p[2][2], p[2][3]),
      date |-> p[2]] :
        p \in {q \in (1..Len(date_formats_with_year)) \X SampleDates :
                  /\ ValidDate(q[2][3], q[2][2], q[2][1])
                  /\ ~(date_formats_with_year[q[1]] = "%d/%m/%Y"
                        /\ q[2][1] <= 12)}}

\* C9: an input that no earlier stage matches and whose cleaned form is the
\* date dt written with its year in one of the formats returns the days from
\* dt to the reference date, and 0 when dt is after the reference date; 27 March
\* 2017 gives 2637 on 2024-06-15. (A date with slashes whose first number
\* could be a month is read month first; it is left out here.)
C9_WithYear ==
    Ended =>
        /\ LET cleaned == Clean(Strip(Text), month_mappings)
           IN NoneOfStages2To5 =>
                \A w \in WrittenWithYear :
                    cleaned = w.text => Returns(<<DaysSince(w.date)>>)
        /\ Text = "27 march 2017" /\ OnDate(2024, 6, 15) => Returns(<<2637>>)

C9_Witness ==
    /\ pc = "done"
    /\ timestamp = "27 March 2017"
    /\ OnDate(2024, 6, 15)
    /\ stage = "with_year"
    /\ result = <<2637>>

----------------------------------------------------------------------------
(* C10 *)

\* the days of SampleDays written in the formats of date_formats_no_year, each
\* with the day and the month it is written from
WrittenNoYear ==
    {[text |-> Render(date_formats_no_year[p[1]], 1, p[2][1], p[2][2], 0),
      day |-> p[2][1], month |-> p[2][2]] :
        p \in {q \in (1..Len(date_formats_no_year)) \X SampleDays :
                  ~(date_formats_no_year[q[1]] = "%d/%m" /\ q[2][1] <= 12)}}

\* C10: an input that no earlier stage matches and whose cleaned form is a day
\* and a month, written in one of the yearless formats, is dated in the year of
\* the reference, and in the year before if and only if that date is after the
\* reference date; the reference date itself gives 0. '13 Feb' gives 353 on
\* 2024-02-01 and 7 on 2024-02-20. (Day and month that are no calendar date in
\* the year used, and d/m with d a possible month, are left out here.)
C10_YearInference ==
    Ended =>
        /\ LET cleaned == Clean(Strip(Text), month_mappings)
           IN NoneOfStages2To5 =>
                \A w \in WrittenNoYear :
                    LET after == Ordinal(now.year, w.month, w.day)
                                    > Ordinal(now.year, now.month, now.day)
                        year == IF after THEN now.year - 1 ELSE now.year
                    IN /\ cleaned = w.text
                       /\ ValidDate(now.year, w.month, w.day)
                       /\ ValidDate(year, w.month, w.day)
                       => Returns(<<DaysSince(<<w.day, w.month, year>>)>>)
        /\ Text = "13 feb" /\ OnDate(2024, 2, 1) => Returns(<<353>>)
        /\ Text = "13 feb" /\ OnDate(2024, 2, 20) => Returns(<<7>>)
        /\ Text = "15 jun" /\ OnDate(2024, 6, 15) => Returns(<<0>>)

\* the year before the reference year is used
C10_Witness ==
    /\ pc = "done"
    /\ timestamp = "13 Feb"
    /\ OnDate(2024, 2, 1)
    /\ stage = "no_year"
    /\ result = <<353>>

----------------------------------------------------------------------------
(* Calls that follow one another *)

\* the running call has the argument and the clock reading of the earlier call
\* its caller kept
SameAsKept ==
    /\ prev # <<>>
    /\ prev[1].timestamp = timestamp
    /\ prev[1].now = now

\* C11: a call of parse_timestamp_to_days with the argument and the clock
\* reading of an earlier call ends the way the earlier call ended and returns
\* the value it returned, be it on the same parser or on a new one, directly or
\* from get_parsed_info or parse_multiple_timestamps, and whatever calls were
\* made in between.
C11_SameResultAgain ==
    Ended /\ SameAsKept => prev[1].pc = pc /\ prev[1].result = result

\* '5 sept' is resolved a second time, through the alias table, after other
\* calls
C11_Witness ==
    /\ pc = "done"
    /\ SameAsKept
    /\ timestamp = "5 sept"
    /\ stage = "no_year"
    /\ result # <<>>

\* C12: the value parse_timestamp_to_days returns with verbose on is the value
\* it returns with verbose off: a call with the argument and the clock reading
\* of an earlier call on a parser with the other setting of verbose ends the
\* same way, at the same stage, with the same value; a parser with verbose off
\* prints nothing.
C12_VerboseOnlyPrints ==
    /\ Ended /\ SameAsKept /\ prev[1].verbose # verbose
          => /\ prev[1].pc = pc
             /\ prev[1].result = result
             /\ prev[1].stage = stage
    /\ ~verbose => out = <<>>

\* 'just now' gave 0 on a verbose parser and gives 0 on a quiet one
C12_Witness ==
    /\ pc = "done"
    /\ SameAsKept
    /\ prev[1].verbose
    /\ ~verbose
    /\ timestamp = "just now"
    /\ result = <<0>>

\* how the running call ended, as parse_timestamp_to_days(ts, n, mm) tells it
Outcome == [pc |-> pc, stage |-> stage, result |-> result]

\* the steps of a call, taken one after the other, end as the function says
ParseAgrees ==
    Ended => Outcome = parse_timestamp_to_days(timestamp, now, MonthMappings)

\* the list parse_multiple_timestamps returned has one pair for each element
\* of its argument, in order: the element, and the value parse_timestamp_to_days
\* returns for it
ListOfPairs ==
    /\ Len(results) = Len(timestamps)
    /\ \A i \in 1..Len(timestamps) :
          /\ results[i][1] = timestamps[i]
          /\ results[i][2] =
                parse_timestamp_to_days(timestamps[i], clocks[i],
                                        MonthMappings).result

\* C13: for every list of strings parse_multiple_timestamps returns a list of
\* the same length whose i-th element is the pair of the i-th string and the
\* value parse_timestamp_to_days returns for it; an element that cannot be
\* parsed gives a pair with None, and neither ends the call nor shifts the
\* elements after it.
C13_OnePairEach ==
    /\ frame # "multiple_raised"
    /\ frame = "multiple_done" => ListOfPairs

\* the same of the lists parse_multiple_timestamps does return
C13_WhenReturned == frame = "multiple_done" => ListOfPairs

\* the bucket of n days
Bucket(n) ==
    CASE n = 0 -> "today"
      [] n = 1 -> "yesterday"
      [] n \in 2..7 -> "this_week"
      [] n \in 8..30 -> "this_month"
      [] n \in 31..365 -> "this_year"
      [] n > 365 -> "older_than_year"

\* C14: the dictionary get_parsed_info returns holds the argument, and files
\* the value under exactly one name: 0 'today', 1 'yesterday', 2 to 7
\* 'this_week', 8 to 30 'this_month', 31 to 365 'this_year', more
\* 'older_than_year'; the category is 'unparseable' and parsed_successfully is
\* false exactly when the value is None, so 0 counts as parsed and is 'today'.
C14_Categories ==
    frame = "info_done" =>
        /\ info # <<>>
        /\ info[1].parsed_successfully = (info[1].days_ago # <<>>)
        /\ (info[1].category = "unparseable") = (info[1].days_ago = <<>>)
        /\ info[1].days_ago # <<>> =>
              /\ info[1].days_ago[1] >= 0
              /\ info[1].category = Bucket(info[1].days_ago[1])
        /\ info[1].original = "0d" =>
              info[1].days_ago = <<0>> /\ info[1].category = "today"

\* the value 0 is filed under 'today' and counts as parsed
C14_Witness ==
    /\ frame = "info_done"
    /\ info[1].days_ago = <<0>>
    /\ info[1].parsed_successfully
    /\ info[1].category = "today"

----------------------------------------------------------------------------
(* The phrases 'N units ago' and the loose fallback *)

\* the integers of s in a phrase 'N unit ago' or 'N units ago': the indexes at
\* which a whole run of digits starts that is followed by whitespace, the
\* unit with or without s, whitespace, and 'ago'
AgoCounted(s, unit) ==
    {i \in 1..Len(s) :
        /\ IsDigit(Char(s, i))
        /\ ~IsDigit(Char(s, i - 1))
        /\ LET j == DigitRunEnd(s, i)
           IN \E k \in (j + 2)..Len(s), t \in {unit, unit \o "s"} :
                /\ \A x \in (j + 1)..(k - 1) : IsSpace(Char(s, x))
                /\ StartsAt(s, k, t)
                /\ \E a \in (k + Len(t) + 1)..Len(s) :
                      /\ \A x \in (k + Len(t))..(a - 1) : IsSpace(Char(s, x))
                      /\ StartsAt(s, a, "ago")}

\* the digits of the first of these integers
FirstAgoCount(s, unit) ==
    LET i == Min(AgoCounted(s, unit)) IN SubSeq(s, i, DigitRunEnd(s, i))

\* the four phrases in their declared order, with the days of one unit
AgoUnits == <<<<"day", 1>>, <<"week", 7>>, <<"month", 30>>, <<"year", 365>>>>

\* stages 2 to 8 do not match the argument
NoneOfStages2To8 ==
    /\ NoneOfStages2To5
    /\ ~Produces("with_year")
    /\ ~Produces("no_year")

\* C15: when stages 2 to 8 do not match, the lowercased argument is searched
\* for 'N day(s) ago', 'N week(s) ago', 'N month(s) ago' and 'N year(s) ago' in
\* this order, and the first of the four that occurs anywhere in it decides:
\* N, 7 * N, 30 * N or 365 * N is returned. '3 months ago' gives 90, '2 years
\* ago' gives 730, and a months phrase goes before a years phrase wherever the
\* two stand. (Violated: for N of more than int_max_str_digits digits the call
\* raises ValueError, see C3.)
C15_AgoPhrases ==
    Ended /\ NoneOfStages2To8 =>
        /\ \A k \in 1..Len(AgoUnits) :
              /\ AgoCounted(Text, AgoUnits[k][1]) # {}
              /\ \A j \in 1..(k - 1) : AgoCounted(Text, AgoUnits[j][1]) = {}
              => /\ pc = "done"
                 /\ result = <<AgoUnits[k][2]
                                 * ToInt(FirstAgoCount(Text, AgoUnits[k][1]))>>
        /\ Text = "3 months ago" => Returns(<<90>>)
        /\ Text = "2 years ago" => Returns(<<730>>)
        /\ Text = "2 years ago 3 months ago" => Returns(<<90>>)

\* stages 2 to 9 do not match the argument
NoneOfStages2To9 ==
    /\ NoneOfStages2To8
    /\ \A k \in 1..Len(AgoUnits) : AgoCounted(Text, AgoUnits[k][1]) = {}

\* the number of the month the word names or abbreviates, 0 for any other word
MonthNumber(word) ==
    LET ks == {k \in 1..12 : MonthNames[k] = MapMonth(word, MonthMappings)}
    IN IF ks = {} THEN 0 ELSE CHOOSE k \in ks : TRUE

\* the four digits that stand, after whitespace, behind index e of s, as a
\* number; -1 when there are none
YearBehind(s, e) ==
    LET y == SpaceRunEnd(s, e + 1) + 1
    IN IF y > e + 1 /\ \A k \in 0..3 : IsDigit(Char(s, y + k))
       THEN ToInt(SubSeq(s, y, y + 3)) ELSE -1

\* what day d of month m is resolved to: with the year y (-1 for none) the days
\* from that date to the reference, 0 for a later date; without a year the
\* date is taken in the year of the reference, and in the year before when
\* that is after the reference date; <<>> (None) when it is no calendar date
DatedDays(d, m, y) ==
    IF y >= 0
    THEN IF ValidDate(y, m, d) THEN <<DaysSince(<<d, m, y>>)>> ELSE <<>>
    ELSE IF ~ValidDate(now.year, m, d) THEN <<>>
    ELSE LET year == IF Ordinal(now.year, m, d)
                            > Ordinal(now.year, now.month, now.day)
                     THEN now.year - 1 ELSE now.year
         IN IF ValidDate(year, m, d) THEN <<DaysSince(<<d, m, year>>)>>
            ELSE <<>>

\* the places of s at which a number of one or two digits stands, followed by
\* whitespace and a word that names or abbreviates a month
DayMonthPlaces(s) ==
    {i \in 1..Len(s) :
        /\ IsDigit(Char(s, i))
        /\ ~IsDigit(Char(s, i - 1))
        /\ DigitRunEnd(s, i) <= i + 1
        /\ LET j == DigitRunEnd(s, i)
               w == SpaceRunEnd(s, j + 1) + 1
           IN /\ w > j + 1
              /\ MonthNumber(SubSeq(s, w, LowerRunEnd(s, w))) # 0}

\* what the day and month at place i of s, with the year behind them if there
\* is one, are resolved to
DatedDaysAt(s, i) ==
    LET j == DigitRunEnd(s, i)
        w == SpaceRunEnd(s, j + 1) + 1
        e == LowerRunEnd(s, w)
    IN DatedDays(ToInt(SubSeq(s, i, j)), MonthNumber(SubSeq(s, w, e)),
                 YearBehind(s, e))

DigitsWordPlaces(s) ==
    {i \in 1..Len(s) :
        /\ IsDigit(Char(s, i))
        /\ \E L \in 1..2 :
              /\ \A k \in 1..(L - 1) : IsDigit(Char(s, i + k))
              /\ IsSpace(Char(s, i + L))
              /\ Char(s, SpaceRunEnd(s, i + L) + 1) \in LowerChars}

\* what the digits and the word at the first of these places are resolved to,
\* None when the word is no month
FirstDigitsWord(s) ==
    LET i == Min(DigitsWordPlaces(s))
        j == IF IsSpace(Char(s, i + 1)) THEN i ELSE i + 1
        w == SpaceRunEnd(s, j + 1) + 1
        e == LowerRunEnd(s, w)
        m == MonthNumber(SubSeq(s, w, e))
    IN IF m = 0 THEN <<>>
       ELSE DatedDays(ToInt(SubSeq(s, i, j)), m, YearBehind(s, e))

----------------------------------------------------------------------------
(* What is written around and inside a date *)

\* the argument of the running call is d followed by sfx, and d alone is
\* accepted by one of the two date stages
DateWith(sfx) ==
    /\ Len(timestamp) > Len(sfx)
    /\ SubSeq(timestamp, Len(timestamp) - Len(sfx) + 1, Len(timestamp)) = sfx
    /\ parse_timestamp_to_days(
           SubSeq(timestamp, 1, Len(timestamp) - Len(sfx)), now,
           MonthMappings).stage \in {"with_year", "no_year"}

\* C17: a date that the with-year or the yearless stage accepts gives the same
\* value when a time of day (' at H:MM', with or without ':SS' and am or pm), a
\* trailing ' ago', or an annotation behind '|' or '·' (without digit,
\* immediate phrase or 'yesterday') is written behind it: neither enters the
\* count of days.
C17_SuffixLeavesResult ==
    Ended =>
        \A sfx \in Suffixes :
            DateWith(sfx) =>
                /\ pc = "done"
                /\ result =
                      parse_timestamp_to_days(
                          SubSeq(timestamp, 1, Len(timestamp) - Len(sfx)), now,
                          MonthMappings).result

\* a date with a time of day, seconds included, resolved as the date alone
C17_Witness ==
    /\ pc = "done"
    /\ timestamp = "27 march 2017 at 17:50:09"
    /\ DateWith(" at 17:50:09")
    /\ stage = "with_year"
    /\ result = <<DaysSince(<<27, 3, 2017>>)>>

\* the dates of NameTemplates written with a key of the alias table, in the
\* three spellings, each with the same date written with the full name
AliasWritten ==
    {[text |-> t[1] \o AliasSpellings[c][k] \o t[2],
      full |-> t[1] \o MonthMappings[k][2] \o t[2]] :
        t \in NameTemplates, c \in 1..3, k \in 1..13}

\* the same dates written with the full name
FullWritten == {t[1] \o MonthNames[m] \o t[2] : t \in NameTemplates, m \in 1..12}

\* C18: the alias table has the thirteen keys jan to dec, sept among them,
\* each with one of the twelve full month names; a date written with a key as
\* a whole word, in any letter case, is cleaned to the date written with the
\* full name and gives its value, at a date stage and not at an earlier one
\* ('5 dec' no days, '5 mar' and '5 may' no minutes, '5 sep' and '5 sept' no
\* seconds); a full name is left as it is by the cleaning.
C18_AliasAsFullName ==
    /\ Len(month_mappings) = 13
    /\ \A k \in 1..13 :
          /\ month_mappings[k][1] = AliasSpellings[1][k]
          /\ Cardinality({m \in 1..12 : MonthNames[m] = month_mappings[k][2]}) = 1
    /\ pc = "done" =>
          /\ \A w \in AliasWritten :
                timestamp = w.text =>
                    /\ stage \in {"with_year", "no_year"}
                    /\ ts_cleaned = w.full
                    /\ result = parse_timestamp_to_days(w.full, now,
                                                        MonthMappings).result
          /\ timestamp \in FullWritten =>
                /\ stage \in {"with_year", "no_year"}
                /\ ts_cleaned = timestamp
    /\ pc = "raised" => \A w \in AliasWritten : timestamp # w.text

\* '5 SEPT 2023' is read as 5 September 2023
C18_Witness ==
    /\ pc = "done"
    /\ timestamp = "5 SEPT 2023"
    /\ ts_cleaned = "5 september 2023"
    /\ stage = "with_year"
    /\ result = <<DaysSince(<<5, 9, 2023>>)>>

----------------------------------------------------------------------------
(* The end of a unit token *)

\* the integers of s followed, after spaces or directly, by one of the tokens,
\* whatever stands behind the token
CountedLoosely(s, tokens) ==
    {i \in 1..Len(s) :
        /\ IsDigit(Char(s, i))
        /\ ~IsDigit(Char(s, i - 1))
        /\ LET j == DigitRunEnd(s, i)
           IN \E k \in (j + 1)..Len(s), t \in tokens :
                /\ \A x \in (j + 1)..(k - 1) : Char(s, x) = " "
                /\ StartsAt(s, k, t)}

\* C19 as stated: an integer followed by a seconds, minutes or hours spelling
\* gives 0 with or without a word boundary behind the spelling, so also when
\* letters, digits or '_' follow it directly. (Violated: '2 hoursx' is
\* unparseable, '5 sept' is a date.)
C19_AnyEnd ==
    Ended /\ ~HasPhrase(Strip(Text)) /\ CountedLoosely(Text, SubDayTokens) # {}
        => Returns(<<0>>)

\* C19: the sub-day stage matches a count followed by a seconds, minutes or
\* hours spelling only when the spelling ends the string or stands before a
\* character that is no letter, digit or '_'. A call that gets past the
\* immediate phrases ends at the sub-day stage, with 0, if and only if its
\* argument holds such a count; a spelling with word characters directly
\* behind it is not matched ('2 hoursx' goes on to the later stages and is
\* unparseable).
C19_BoundaryNeeded ==
    Ended /\ ~HasPhrase(Strip(Text)) =>
        /\ (stage = "time_units") = (Counted(Text, SubDayTokens) # {})
        /\ stage = "time_units" => Returns(<<0>>)
        /\ Text = "2 hoursx" => Returns(<<>>) /\ stage = "failed"

\* hours with a letter directly behind: no sub-day unit
C19_Witness ==
    /\ pc = "done"
    /\ timestamp = "2 hoursx"
    /\ CountedLoosely(Text, SubDayTokens) # {}
    /\ Counted(Text, SubDayTokens) = {}
    /\ "time_units" \in {attempted[i] : i \in 1..Len(attempted)}
    /\ stage = "failed"
    /\ result = <<>>

----------------------------------------------------------------------------
(* What the calls leave alone *)

----------------------------------------------------------------------------
(* Dates read around the end of February and the end of the year *)

\* the year a day and a month without a year are dated in: the year of the
\* reference, or the year before when the date would be after the reference
\* date
YearOf(m, d) ==
    IF Ordinal(now.year, m, d) > Ordinal(now.year, now.month, now.day)
    THEN now.year - 1 ELSE now.year

\* the call returned the days since day d of month m of year y, or None when
\* that is no calendar date
ReadAs(d, m, y) ==
    IF ValidDate(y, m, d)
    THEN Returns(<<DaysSince(<<d, m, y>>)>>)
    ELSE Returns(<<>>)

\* a date written with the fields a and b is read month first when that is a
\* date of the year y, day first only when a is no month, and not at all
\* otherwise; dated is the year the date read is put in
SlashReading(a, b, y, dated(_, _)) ==
    IF ValidDate(y, a, b) THEN ReadAs(b, a, dated(a, b))
    ELSE IF a > 12 /\ ValidDate(y, b, a) THEN ReadAs(a, b, dated(b, a))
    ELSE Returns(<<>>)

\* C21: a date with slashes whose two leading fields could both be month and
\* day is read month first, 'a/b/YYYY' and 'a/b' alike: with a <= 12 and b a
\* day of month a the result is the days since day b of month a; the day-first
\* reading decides only when a > 12. (A yearless date is put in the year of
\* the reference or the year before as everywhere in the yearless stage.)
C21_MonthFirst ==
    pc = "done" =>
        \A a, b \in SlashFields :
            /\ \A y \in SlashYears :
                timestamp = a \o "/" \o b \o "/" \o y =>
                    LET Given(m, d) == ToInt(y)
                    IN SlashReading(ToInt(a), ToInt(b), ToInt(y), Given)
            /\ timestamp = a \o "/" \o b =>
                    SlashReading(ToInt(a), ToInt(b), now.year, YearOf)

\* '2/3/2024' read on 2024-03-01 is the 3rd of February (27 days), not the 2nd
\* of March
C21_Witness ==
    /\ pc = "done"
    /\ timestamp = "2/3/2024"
    /\ OnDate(2024, 3, 1)
    /\ stage = "with_year"
    /\ result = <<27>>

\* the days, the months (as written, with their number) and the clock times of
\* the arguments 'day month time'
ClockDays == {"1", "5", "13", "29", "31"}

ClockMonths ==
    {<<"Feb", 2>>, <<"sept", 9>>, <<"march", 3>>, <<"Dec", 12>>, <<"jan", 1>>}

ClockTimes == {" 10:37", " 3:45", " 17:50:09", " 9:05 pm"}

DecidedWithoutYear ==
    /\ pc = "done"
    /\ result # <<>>
    /\ \/ stage = "no_year"
       \/ /\ stage = "fallback"
          /\ FallbackSearch(ts_cleaned).year_str = ""

\* parsed_dt of that decision: of the first yearless template that ends the
\* loop (line 176 or 179), or of the fallback (line 223 or 225)
YearlessParsed ==
    IF stage = "no_year"
    THEN LET k == Min({j \in 1..Len(date_formats_no_year) :
                         EndsLoop(NoYearAttempt(ts_cleaned, now,
                                                date_formats_no_year[j]))})
         IN InferYear(Strptime(ts_cleaned \o " " \o ToStr(now.year),
                               date_formats_no_year[k] \o " %Y"), now)
    ELSE FallbackDate(FallbackSearch(ts_cleaned), now, month_mappings)

\* C23: a result from a date without a year is between 0 and 365, in leap
\* years too; the date it is counted from is never after the reference date,
\* so the result is the difference in days itself and max(0, .) changes
\* nothing
C23_WithinAYear ==
    DecidedWithoutYear =>
        /\ result[1] >= 0
        /\ result[1] <= 365
        /\ YearlessParsed.ok
        /\ ~DateAfter(YearlessParsed, now)
        /\ Ordinal(YearlessParsed.year, YearlessParsed.month, YearlessParsed.day)
             <= Ordinal(now.year, now.month, now.day)
        /\ result[1] = Ordinal(now.year, now.month, now.day)
                         - Ordinal(YearlessParsed.year, YearlessParsed.month,
                                   YearlessParsed.day)

\* '1 jan' read on the last day of the leap year 2024: 365 days
C23_Witness ==
    /\ pc = "done"
    /\ timestamp = "1 jan"
    /\ OnDate(2024, 12, 31)
    /\ stage = "no_year"
    /\ result = <<365>>

\* the same bound reached through the year before, over the 29th of February:
\* '1 march 10:37' read on 2024-02-29, at the fallback
C23_WitnessFallback ==
    /\ pc = "done"
    /\ timestamp = "1 march 10:37"
    /\ OnDate(2024, 2, 29)
    /\ stage = "fallback"
    /\ result = <<365>>

\* the 29th of February as it is written without a year
LeapDayWritten ==
    {"29 Feb", "29 february", "feb 29", "february 29", "29-feb",
     "29-february", "2/29", "29/2", "29 Feb at 10:37", "29 Feb 10:37"}

\* the reference date is in a leap year, on or after the 29th of February
OnOrAfterLeapDay ==
    /\ IsLeap(now.year)
    /\ Ordinal(now.year, now.month, now.day) >= Ordinal(now.year, 2, 29)

\* C24: a 29th of February without a year gives a day count, the days since
\* the 29th of February of the reference year, only when the reference year is
\* a leap year and the reference date is on or after that day; in a year that
\* is no leap year, and earlier in a leap year (when the year before would be
\* used), the call returns None, and no exception leaves it
C24_LeapDay ==
    timestamp \in LeapDayWritten =>
        /\ pc # "raised"
        /\ pc = "done" =>
            IF OnOrAfterLeapDay
            THEN result = <<Ordinal(now.year, now.month, now.day)
                              - Ordinal(now.year, 2, 29)>>
            ELSE result = <<>>

\* 'feb 29' read on 2024-02-28: the year before has no such day, every stage
\* was tried and the call returned None
C24_Witness ==
    /\ pc = "done"
    /\ timestamp = "feb 29"
    /\ OnDate(2024, 2, 28)
    /\ Len(attempted) = Len(CascadeOrder)
    /\ result = <<>>

\* '29 Feb' read on 2024-03-01: one day
C24_WitnessResolved ==
    /\ pc = "done"
    /\ timestamp = "29 Feb"
    /\ OnDate(2024, 3, 1)
    /\ result = <<1>>

\* the seconds after midnight the clock is read at
TimesOfDay == {0, 43200, 86399}

\* C25: the time of day of the reference instant has no part in the result:
\* read at 00:00:00, at noon or at 23:59:59 of the date of now, the argument
\* ends the call the same way, at the same stage, with the same value, whether
\* a date with a year, a date without a year or the fallback decides it
C25_DateOnly ==
    Ended =>
        \A t \in TimesOfDay :
            parse_timestamp_to_days(
                timestamp, [now EXCEPT !.secs = t], month_mappings) = Outcome

\* the last second of 2024-02-29: '28 feb' is still one day ago
C25_Witness ==
    /\ pc = "done"
    /\ timestamp = "28 feb"
    /\ OnDate(2024, 2, 29)
    /\ now.secs = 86399
    /\ stage = "no_year"
    /\ result = <<1>>

----------------------------------------------------------------------------
(* The patterns of the late stage that are never reached *)

\* the argument holds a phrase 'N day(s) ago' or 'N week(s) ago'
DayOrWeekAgo(s) == AgoCounted(s, "day") # {} \/ AgoCounted(s, "week") # {}

\* the stages the running call has entered
Entered == {attempted[k] : k \in 1..Len(attempted)}

\* C26: the patterns 'N day(s) ago' and 'N week(s) ago' of the late stage
\* never decide: a call whose argument holds such a phrase ends before that
\* stage (at the immediate phrases, the sub-day units, 'yesterday' or the
\* day/week stage), so a call that is at the late stage holds none, and what
\* the late stage returns comes from its months or its years pattern
C26_DayWeekAgoDecidedBefore ==
    /\ DayOrWeekAgo(Text) /\ pc # "idle" =>
        /\ "special" \notin Entered
        /\ pc # "special"
        /\ Ended => stage \in {"immediate", "time_units", "yesterday",
                               "relative"}
                    \/ (pc = "raised" /\ attempted[Len(attempted)] = "relative")
    /\ pc = "done" /\ stage = "special" =>
        /\ ~DayOrWeekAgo(Text)
        /\ AgoCounted(Text, "month") # {} \/ AgoCounted(Text, "year") # {}

\* '2 days ago' is decided by the day/week stage
C26_Witness ==
    /\ pc = "done"
    /\ timestamp = "2 days ago"
    /\ DayOrWeekAgo(Text)
    /\ stage = "relative"
    /\ result = <<2>>

\* the months pattern of the late stage is reached
C26_WitnessMonths ==
    /\ pc = "done"
    /\ timestamp = "12 months ago"
    /\ stage = "special"
    /\ result = <<360>>

----------------------------------------------------------------------------
(* The search terms of the keyword processor *)

\* the elements of a list
Elements(seq) == {seq[i] : i \in 1..Len(seq)}

\* the first i characters of s
Prefix(s, i) == SubSeq(s, 1, i)

\* term is the main keyword alone, or a prefix of the secondary keyword and
\* the main keyword, in either order, with one space between them
TermOf(term, main, secondary) ==
    \E i \in 1..Len(secondary) :
        \/ term = Prefix(secondary, i) \o " " \o main
        \/ term = main \o " " \o Prefix(secondary, i)

\* C27: every search term get_optimized_search_terms returns holds one
\* expanded main keyword whole and unchanged; the rest is nothing, or a prefix
\* of one secondary keyword before or after it, one space apart. The main
\* keyword is never cut. ('Delhi, Packet, Mouse+Cheese' expands to Delhi,
\* Packet and 'Mouse Cheese'.)
C27_MainKeywordWhole ==
    /\ call.method = "get_optimized_search_terms" =>
        \A term \in Elements(call.returned.search_terms) :
            \E main \in Elements(processor.main_keywords) :
                \/ term = main
                \/ \E secondary \in Elements(processor.secondary_keywords) :
                      TermOf(term, main, secondary)
    /\ /\ processor.class # "none"
       /\ processor.main_keywords_raw = <<"Delhi, Packet, Mouse+Cheese">>
       => processor.main_keywords = <<"Delhi", "Packet", "Mouse Cheese">>

\* 'Mouse+Cheese' with the secondary keyword Food: the main keyword alone and
\* the prefixes of Food on either side of 'Mouse Cheese'
C27_Witness ==
    /\ call.method = "get_optimized_search_terms"
    /\ processor.main_keywords = <<"Mouse Cheese">>
    /\ processor.secondary_keywords = <<"Food">>
    /\ call.returned.search_terms =
          <<"Mouse Cheese", "Foo Mouse Cheese", "Food Mouse Cheese",
            "Mouse Cheese Foo", "Mouse Cheese Food">>

\* the search terms of a list of sequences
Terms(sequences) == [i \in 1..Len(sequences) |-> sequences[i].search_term]

\* C28: for a combination of a main and a secondary keyword,
\* generate_progressive_sequences returns one step for each prefix of the
\* secondary keyword, from its first character to the whole keyword, on the
\* side of the main keyword the pattern says; a secondary keyword that is not
\* empty has at least its full term among them. (Violated: the steps begin at
\* the third character, and a keyword of one or two characters has none.)
C28_EveryPrefix ==
    /\ call.method = "generate_progressive_sequences"
    /\ call.combination.type # "main_only"
    => LET main == call.combination.main_keyword
           secondary == call.combination.secondary_keyword[1]
       IN /\ Terms(call.returned) =
                [i \in 1..Len(secondary) |->
                    IF call.combination.pattern = "secondary_prefix"
                    THEN Prefix(secondary, i) \o " " \o main
                    ELSE main \o " " \o Prefix(secondary, i)]
          /\ secondary # "" =>
                call.combination.search_term \in Elements(Terms(call.returned))

\* what the code does: the steps are the prefixes of three characters and
\* more, in order, and there is none for a shorter keyword
C28_FromTheThird ==
    /\ call.method = "generate_progressive_sequences"
    /\ call.combination.type # "main_only"
    => LET main == call.combination.main_keyword
           secondary == call.combination.secondary_keyword[1]
           n == IF Len(secondary) >= 3 THEN Len(secondary) - 2 ELSE 0
       IN Terms(call.returned) =
                [k \in 1..n |->
                    IF call.combination.pattern = "secondary_prefix"
                    THEN Prefix(secondary, k + 2) \o " " \o main
                    ELSE main \o " " \o Prefix(secondary, k + 2)]

\* entry is the sequence s with the statistics of the deduplication added
SameSequence(entry, s) ==
    /\ DOMAIN entry = DOMAIN s \cup {"deduplication_stats"}
    /\ \A f \in DOMAIN s \ {"deduplication_stats"} : entry[f] = s[f]

\* the length of the partial secondary of a sequence, 0 when it has none
PartialLength(s) ==
    IF "partial_secondary" \in DOMAIN s THEN Len(s.partial_secondary) ELSE 0

\* sequence i of the list goes before sequence j of the same search term: its
\* partial secondary is longer; or as long, and it alone is in the
\* secondary-first pattern; or as long and in the same of the two, and it
\* comes no later
GoesBefore(list, i, j) ==
    LET first(k) == list[k].pattern = "secondary_prefix"
    IN \/ PartialLength(list[i]) > PartialLength(list[j])
       \/ /\ PartialLength(list[i]) = PartialLength(list[j])
          /\ \/ first(i) /\ ~first(j)
             \/ first(i) = first(j) /\ i <= j

\* C29: deduplicate_sequences returns one entry for each search term of its
\* argument: the terms returned are pairwise distinct, they are the terms of
\* the argument, and the entry kept for a term is, of the entries with that
\* term, the one with the longest partial secondary, then the one in the
\* secondary-first pattern, then the earliest
C29_OnePerTerm ==
    call.method = "deduplicate_sequences" =>
        LET given == call.all_sequences
            kept == call.returned
        IN /\ \A a, b \in 1..Len(kept) :
                a # b => kept[a].search_term # kept[b].search_term
           /\ Elements(Terms(kept)) = Elements(Terms(given))
           /\ \A a \in 1..Len(kept) :
                \E i \in 1..Len(given) :
                    /\ SameSequence(kept[a], given[i])
                    /\ \A j \in 1..Len(given) :
                          given[j].search_term = given[i].search_term
                              => GoesBefore(given, i, j)

\* a later entry is kept: the main-first 'aaa aaa' comes first, the
\* secondary-first 'aaa aaa' with a partial secondary as long comes second and
\* is the one returned
C29_Witness ==
    /\ call.method = "deduplicate_sequences"
    /\ Len(call.all_sequences) = 2
    /\ call.all_sequences[1].search_term = call.all_sequences[2].search_term
    /\ call.all_sequences[1].pattern = "main_prefix"
    /\ call.all_sequences[2].pattern = "secondary_prefix"
    /\ Len(call.returned) = 1
    /\ call.returned[1].pattern = "secondary_prefix"
    /\ call.returned[1].deduplication_stats.total_conflicts = 1

\* a later entry is kept for its longer partial secondary: 'a bcd efg' from the
\* main keyword 'a bcd' with 'efg', then from the main keyword 'a' with
\* 'bcd efg'
C29_WitnessLonger ==
    /\ call.method = "deduplicate_sequences"
    /\ Len(call.all_sequences) = 2
    /\ call.all_sequences[1].search_term = "a bcd efg"
    /\ call.all_sequences[2].search_term = "a bcd efg"
    /\ call.all_sequences[1].partial_secondary = "efg"
    /\ call.all_sequences[2].partial_secondary = "bcd efg"
    /\ Len(call.returned) = 1
    /\ call.returned[1].partial_secondary = "bcd efg"

\* C30: get_all_search_terms(user_keywords) returns the search terms of the
\* main keywords with the user keywords of this call, whatever was called on
\* the processor before: what a processor built the same way returns for them
\* on its first call. (Violated: after an earlier call that kept processed
\* keywords, the terms returned are those of the earlier keywords.)
C30_TermsOfThisCall ==
    call.method = "get_all_search_terms" =>
        call.returned =
            get_all_search_terms(
                KeywordProcessor(processor.main_keywords_raw,
                                 processor.min_progressive_length,
                                 processor.max_progressive_length,
                                 processor.enable_smart_filtering),
                call.user_keywords).returned

\* what the code does: the terms returned are those of the processed keywords
\* the processor holds after the call, which are those of this call only when
\* it held none before
C30_TermsOfKeptKeywords ==
    call.method = "get_all_search_terms" =>
        call.returned =
            get_optimized_search_terms(
                OptimizedKeywordProcessor(
                    processor.main_keywords_raw,
                    [i \in 1..Len(processor.processed_keywords) |->
                        processor.processed_keywords[i].processed])).search_terms

====
